---- MODULE Spec2Model ----
(***************************************************************************)
(* Hybrid retrieval and fusion engine of Gasable Hub (src/webapp.py):      *)
(* reciprocal rank fusion, MMR selection, text cleaning, the BM25 index    *)
(* cache and the hybrid_search / api_query / api_query_stream pipeline.    *)
(*                                                                         *)
(* Conventions.                                                            *)
(*  - A Python str that the code takes apart (split, regex, substring) is  *)
(*    a sequence of one-character strings; a str that is only compared or  *)
(*    concatenated at ':' boundaries is a sequence of atoms in which ":"   *)
(*    is an atom of its own.                                               *)
(*  - A Python float is an exact rational.  An rrf value is an integer     *)
(*    numerator over the common denominator RrfDen; a raw score is an      *)
(*    integer number of hundredths.                                        *)
(*  - Each component has its own specification (SpecFuse, SpecMmr, ...);   *)
(*    the variables of the other components stay at their idle values.     *)
(***************************************************************************)
EXTENDS Integers, Sequences, FiniteSets, TLC

VARIABLES
    \* _rrf_fuse
    result_lists,   \* the argument: a sequence of ranked lists of candidates
    fused,          \* the returned list
    fpc,            \* "off" | "call" | "done"
    \* _mmr_select
    candidates,     \* the argument list; after the precompute loop each item has _tokens
    mmr_k,          \* the argument k
    lambda_weight,  \* the argument lambda_weight, in tenths
    selected,       \* list of references (positions in candidates) picked so far
    remaining,      \* list of references still to pick from
    mmr_out,        \* the returned list
    mpc,            \* "off" | "call" | "loop" | "done"
    \* clean_text
    raw_text,       \* the argument text
    cleaned,        \* clean_text(raw_text)
    recleaned,      \* clean_text(clean_text(raw_text))
    cpc,            \* "off" | "call" | "once" | "twice"
    \* the lexical index cache (_get_bm25_state, _build_bm25_index)
    BM25_STATE,     \* the module global: <<>> for None, <<index>> for a built index
    clock,          \* time.time(), in seconds
    db,             \* the tables _load_corpus reads
    bm_ttl,         \* RAG_BM25_TTL_SEC
    bm_calls,       \* calls of _get_bm25_state so far
    bm_loads,       \* calls of _load_corpus made by _build_bm25_index so far
    bm_builds,      \* assignments to BM25_STATE so far
    bm_last,        \* outcome of the latest call: "none" | "reused" | "built" | "raised"
    bpc,            \* "off" | "run"
    \* the retrieval pipeline (api_query, api_query_stream, hybrid_search)
    entry,          \* the entry point called
    q_in,           \* the query the caller passed
    qry,            \* the query the pipeline works on (stripped by api_query)
    api_key,        \* OPENAI_API_KEY is set
    kw_limit,       \* RAG_KW_PREFILTER_LIMIT
    top_k,          \* RAG_TOP_K / the top_k argument
    p_db,           \* the tables the retrievers query
    ppc,            \* the step the call is at; "off" | "start" | ... | "done"
    expanded,       \* list of queries from _generate_query_expansions
    dense_lists, lex_lists, kw_lists, boost,
    fuse_in,        \* the argument handed to _rrf_fuse
    p_fused, p_reranked,
    ctx_rows,       \* the (id, text, score) tuples built from the selection
    outcome,        \* "running" | "returned" | "raised" | "answered" | "empty_query" | "error"
    raised_in,      \* the step whose exception left its function, "" if none
    failed,         \* the sub-signals that failed in this call
    invoked,        \* the sub-signals called so far
    events,         \* the events api_query_stream has yielded
    \* _rerank_llm
    rr_candidates,  \* the argument candidates
    rr_top,         \* the argument top
    rr_key,         \* OPENAI_API_KEY is set
    rr_resp,        \* what the provider does when asked
    rr_out,         \* the returned list
    rpc,            \* "off" | "call" | "done"
    \* concurrent callers of _bm25_search
    c_state,        \* the global BM25_STATE as a reference: 0 for None
    c_heap,         \* the index dicts made so far, by reference
    c_from,         \* for each dict, the corpus its build had loaded
    c_db,           \* the tables
    c_clock,        \* time.time()
    c_pc,           \* per thread: the statement it is at
    c_local,        \* per thread: its local variables
    c_calls,        \* per thread: calls of _bm25_search started
    \* _load_corpus with failing sources
    lc_db,          \* the tables
    lc_down,        \* the sources whose query fails
    lc_limit,       \* limit_per_table
    lc_out,         \* what the call gave: the items, or an exception
    lpc, 
    \* _generate_query_expansions
    ex_q,           \* the query
    ex_world,       \* what the provider does
    ex_max,         \* RAG_EXPANSIONS
    ex_out,         \* the list returned
    xpc, 
    \* fusion under rescaled raw scores
    sc_lists,       \* the ranked lists
    sc_which,       \* the list whose scores are multiplied
    sc_factor,      \* by this constant
    sc_dense,       \* the lists that are dense results
    sc_kfuse,       \* RAG_K_DENSE_FUSE
    sc_plain,       \* fused list of the lists as they are
    sc_scaled,      \* fused list with one list rescaled
    scpc, 
    \* _bm25_search
    bs_state,       \* the index _get_bm25_state returned
    bs_query,       \* the query
    bs_k,           \* k
    bs_scores,      \* bm25.get_scores(q_tokens)
    bs_out,         \* the list returned
    spc

fuseVars == <<result_lists, fused, fpc>>
mmrVars == <<candidates, mmr_k, lambda_weight, selected, remaining, mmr_out, mpc>>

cleanVars == <<raw_text, cleaned, recleaned, cpc>>
cacheVars == <<BM25_STATE, clock, db, bm_ttl, bm_calls, bm_loads, bm_builds, bm_last, bpc>>

pipeVars == <<entry, q_in, qry, api_key, kw_limit, top_k, p_db, ppc, expanded,
              dense_lists, lex_lists, kw_lists, boost, fuse_in, p_fused, p_reranked,
              ctx_rows, outcome, raised_in, failed, invoked, events>>

rerankVars == <<rr_candidates, rr_top, rr_key, rr_resp, rr_out, rpc>>

concVars == <<c_state, c_heap, c_from, c_db, c_clock, c_pc, c_local, c_calls>>

loadVars == <<lc_db, lc_down, lc_limit, lc_out, lpc>>

expandVars == <<ex_q, ex_world, ex_max, ex_out, xpc>>

scaleVars == <<sc_lists, sc_which, sc_factor, sc_dense, sc_kfuse, sc_plain, sc_scaled, scpc>>

searchVars == <<bs_state, bs_query, bs_k, bs_scores, bs_out, spc>>

vars == <<fuseVars, mmrVars, cleanVars, cacheVars, pipeVars, rerankVars, concVars, loadVars, expandVars, scaleVars, searchVars>>

\* What each component's actions leave alone.
fuseOthers == <<mmrVars, cleanVars, cacheVars, pipeVars, rerankVars, concVars, loadVars, expandVars, scaleVars, searchVars>>
mmrOthers == <<fuseVars, cleanVars, cacheVars, pipeVars, rerankVars, concVars, loadVars, expandVars, scaleVars, searchVars>>
cleanOthers == <<fuseVars, mmrVars, cacheVars, pipeVars, rerankVars, concVars, loadVars, expandVars, scaleVars, searchVars>>
cacheOthers == <<fuseVars, mmrVars, cleanVars, pipeVars, rerankVars, concVars, loadVars, expandVars, scaleVars, searchVars>>
pipeOthers == <<fuseVars, mmrVars, cleanVars, cacheVars, rerankVars, concVars, loadVars, expandVars, scaleVars, searchVars>>
rerankOthers == <<fuseVars, mmrVars, cleanVars, cacheVars, pipeVars, concVars, loadVars, expandVars, scaleVars, searchVars>>
concOthers == <<fuseVars, mmrVars, cleanVars, cacheVars, pipeVars, rerankVars, loadVars, expandVars, scaleVars, searchVars>>
loadOthers == <<fuseVars, mmrVars, cleanVars, cacheVars, pipeVars, rerankVars, concVars, expandVars, scaleVars, searchVars>>
expandOthers == <<fuseVars, mmrVars, cleanVars, cacheVars, pipeVars, rerankVars, concVars, loadVars, scaleVars, searchVars>>
scaleOthers == <<fuseVars, mmrVars, cleanVars, cacheVars, pipeVars, rerankVars, concVars, loadVars, expandVars, searchVars>>
searchOthers == <<fuseVars, mmrVars, cleanVars, cacheVars, pipeVars, rerankVars, concVars, loadVars, expandVars, scaleVars>>

(***************************************************************************)
(* Bounds of the model.                                                    *)
(***************************************************************************)
MaxLen == 2         \* longest ranked list handed to _rrf_fuse
MaxLists == 2       \* most ranked lists handed to _rrf_fuse
MaxCands == 3       \* longest candidate list handed to _mmr_select
MaxK == 3           \* largest k handed to _mmr_select
MaxPieces == 4      \* most pieces a text handed to clean_text is put together from
MaxClock == 4       \* the clock stops advancing here
MaxCalls == 4       \* most calls of _get_bm25_state in one behaviour
MaxEntries == 2     \* longest response array handed back to _rerank_llm
MaxItems == 5       \* longest array in a response to _generate_query_expansions
MaxConcCalls == 1   \* most calls of _bm25_search one thread starts

(***************************************************************************)
(* Generic helpers.                                                        *)
(***************************************************************************)
SeqsUpTo(S, n) == UNION {[1..m -> S] : m \in 0..n}

RECURSIVE Flatten(_)
Flatten(ss) == IF ss = <<>> THEN <<>> ELSE Head(ss) \o Flatten(Tail(ss))

Range(s) == {s[i] : i \in DOMAIN s}

\* Python's sorted(xs, key=..., reverse=True) over records [k |-> key, v |-> item]:
\* a stable sort, so elements with equal keys keep their input order.  Insertion
\* from the left, each element placed after every element whose key is >= its own.
RECURSIVE InsertDesc(_, _)
InsertDesc(x, sorted) ==
    IF sorted = <<>> THEN <<x>>
    ELSE IF Head(sorted).k >= x.k
         THEN <<Head(sorted)>> \o InsertDesc(x, Tail(sorted))
         ELSE <<x>> \o sorted

RECURSIVE SortDescFrom(_, _)
SortDescFrom(xs, acc) ==
    IF xs = <<>> THEN acc
    ELSE SortDescFrom(Tail(xs), InsertDesc(Head(xs), acc))

\* A plausible slip: sorted(xs, key=...)[::-1], which reverses the ties.
SortDescTiesReversed(xs) == SortDescFrom([i \in DOMAIN xs |-> xs[Len(xs) + 1 - i]], <<>>)

SortDesc(xs) == SortDescFrom(xs, <<>>)

(***************************************************************************)
(* Candidates.                                                             *)
(***************************************************************************)
\* Example chunk texts (character sequences).
TxtQuickFox == <<"q","u","i","c","k"," ","f","o","x">>
TxtRedFox == <<"r","e","d"," ","f","o","x">>
TxtGasable == <<"G","a","s","a","b","l","e"," ","f","u","e","l">>
TxtEmpty == <<>>

SrcIndex == <<"gasable_index">>
SrcEmb == <<"embeddings">>
SrcDocs == <<"documents">>

Cand(src, id, txt, sc) == [source |-> src, id |-> id, text |-> txt, score |-> sc]

\* meta[key] | {"rrf": val}: the candidate with its rrf field set.
WithRrf(r, val) ==
    [source |-> r.source, id |-> r.id, text |-> r.text, score |-> r.score, rrf |-> val]

\* key = f"{r['source']}:{r['id']}"
CandKey(r) == r.source \o <<":">> \o r.id

(***************************************************************************)
(* _rrf_fuse                                                               *)
(***************************************************************************)
RRF_K == 60

\* Longest list any specification hands to _rrf_fuse: MaxLen in the fusion
\* specification, at most four candidates in the pipeline (two gasable_index rows
\* and one embeddings row seen through both embedding columns).
MaxRank == IF MaxLen > 2 + 2 THEN MaxLen ELSE 2 + 2

RECURSIVE RrfProd(_)
RrfProd(n) == IF n = 0 THEN 1 ELSE (RRF_K + n) * RrfProd(n - 1)

\* Common denominator of every 1/(k + rank), rank in 1..MaxRank.
RrfDen == RrfProd(MaxRank)

\* 1.0 / (k + rank), as a numerator over RrfDen (exact: (k + rank) divides RrfDen).
RrfTerm(k, rank) == RrfDen \div (k + rank)

\* The (key, rank, candidate) triples in the order the two nested loops visit them.
RECURSIVE Occurrences(_)
Occurrences(lists) ==
    IF lists = <<>> THEN <<>>
    ELSE [i \in 1..Len(Head(lists)) |->
             [key |-> CandKey(Head(lists)[i]), rank |-> i, cand |-> Head(lists)[i]]] \o <<>>
         \o Occurrences(Tail(lists))

\* A plausible slip: meta[key] = r on every occurrence, so the last one stays.
RECURSIVE LastSeen(_, _)
LastSeen(occ, acc) ==
    IF occ = <<>> THEN acc
    ELSE LastSeen(Tail(occ),
                  IF \E j \in DOMAIN acc : acc[j].key = Head(occ).key
                  THEN [j \in DOMAIN acc |->
                           IF acc[j].key = Head(occ).key THEN Head(occ) ELSE acc[j]]
                  ELSE Append(acc, Head(occ)))

\* The dict insertion order of `scores` (and of `meta`): keys by first occurrence,
\* each with the candidate of that occurrence (if key not in meta: meta[key] = r).
RECURSIVE FirstSeen(_, _)
FirstSeen(occ, acc) ==
    IF occ = <<>> THEN acc
    ELSE FirstSeen(Tail(occ),
                   IF \E j \in DOMAIN acc : acc[j].key = Head(occ).key
                   THEN acc
                   ELSE Append(acc, Head(occ)))

\* A plausible slip: each term is weighted by the raw score of the occurrence.
RECURSIVE RrfScoreWeighted(_, _, _)
RrfScoreWeighted(occ, key, k) ==
    IF occ = <<>> THEN 0
    ELSE (IF Head(occ).key = key THEN Head(occ).cand.score * RrfTerm(k, Head(occ).rank) ELSE 0)
         + RrfScoreWeighted(Tail(occ), key, k)

\* scores[key] = scores.get(key, 0.0) + 1.0 / (k + rank), over every occurrence.
RECURSIVE RrfScore(_, _, _)
RrfScore(occ, key, k) ==
    IF occ = <<>> THEN 0
    ELSE (IF Head(occ).key = key THEN RrfTerm(k, Head(occ).rank) ELSE 0)
         + RrfScore(Tail(occ), key, k)

\* A plausible slip: scores[key] = 1.0 / (k + rank) (assignment instead of +=).
RrfFuseOverwrite(lists, k) ==
    LET occ == Occurrences(lists)
        LastTerm(key) ==
            LET js == {j \in DOMAIN occ : occ[j].key = key}
                last == CHOOSE j \in js : \A i \in js : i <= j
            IN RrfTerm(k, occ[last].rank)
        first == FirstSeen(occ, <<>>)
        items == [j \in DOMAIN first |->
                    [k |-> LastTerm(first[j].key), v |-> first[j].cand]]
        ordered == SortDesc(items)
    IN [j \in DOMAIN ordered |-> WithRrf(ordered[j].v, ordered[j].k)]

\* _rrf_fuse(result_lists, k): meta[key] | {"rrf": val} for key, val in ordered.
RrfFuse(lists, k) ==
    LET occ == Occurrences(lists)
        first == FirstSeen(occ, <<>>)
        items == [j \in DOMAIN first |->
                    [k |-> RrfScore(occ, first[j].key, k), v |-> first[j].cand]] \o <<>>
        ordered == SortDesc(items)
    IN [j \in DOMAIN ordered |-> WithRrf(ordered[j].v, ordered[j].k)]

\* Candidates the fusion specification draws its ranked lists from: two records
\* with the same key and different text and score, and a second key.
FusePool ==
    { Cand(SrcIndex, <<"1">>, TxtQuickFox, 90),
      Cand(SrcIndex, <<"1">>, TxtRedFox, 500),
      Cand(SrcEmb, <<"1">>, TxtGasable, 65) }

FuseIdle == result_lists = <<>> /\ fused = <<>> /\ fpc = "off"

FuseInit ==
    /\ result_lists \in SeqsUpTo(SeqsUpTo(FusePool, MaxLen), MaxLists)
    /\ fused = <<>>
    /\ fpc = "call"

\* fused = _rrf_fuse(result_lists)
Fuse ==
    /\ fpc = "call"
    /\ fused' = RrfFuse(result_lists, RRF_K)
    /\ fpc' = "done"
    /\ UNCHANGED result_lists
    /\ UNCHANGED fuseOthers

(***************************************************************************)
(* _tokenize_for_similarity, _jaccard_sim                                  *)
(***************************************************************************)
LowerLetters == {"a","b","c","d","e","f","g","h","i","j","k","l","m",
                 "n","o","p","q","r","s","t","u","v","w","x","y","z"}
UpperLetters == {"A","B","C","D","E","F","G","H","I","J","K","L","M",
                 "N","O","P","Q","R","S","T","U","V","W","X","Y","Z"}
Digits == {"0","1","2","3","4","5","6","7","8","9"}

\* str.lower() on one character.
LowerChar(c) ==
    CASE c = "A" -> "a" [] c = "B" -> "b" [] c = "C" -> "c" [] c = "D" -> "d"
      [] c = "E" -> "e" [] c = "F" -> "f" [] c = "G" -> "g" [] c = "H" -> "h"
      [] c = "I" -> "i" [] c = "J" -> "j" [] c = "K" -> "k" [] c = "L" -> "l"
      [] c = "M" -> "m" [] c = "N" -> "n" [] c = "O" -> "o" [] c = "P" -> "p"
      [] c = "Q" -> "q" [] c = "R" -> "r" [] c = "S" -> "s" [] c = "T" -> "t"
      [] c = "U" -> "u" [] c = "V" -> "v" [] c = "W" -> "w" [] c = "X" -> "x"
      [] c = "Y" -> "y" [] c = "Z" -> "z" [] OTHER -> c

\* str.lower(), built as an explicit tuple.
Lower(t) == [i \in DOMAIN t |-> LowerChar(t[i])] \o <<>>

\* [A-Za-z\u0600-\u06FF] and [A-Za-z0-9_\u0600-\u06FF] (the model's texts hold no
\* Arabic letters).
IsTokenStart(c) == c \in LowerLetters \cup UpperLetters
IsTokenChar(c) == c \in LowerLetters \cup UpperLetters \cup Digits \cup {"_"}

\* Length of the longest run of token characters at the head of t.
RECURSIVE TokenRun(_)
TokenRun(t) ==
    IF t = <<>> \/ ~IsTokenChar(Head(t)) THEN 0 ELSE 1 + TokenRun(Tail(t))

\* re.findall(r"[A-Za-z..][A-Za-z0-9_..]{2,}", t): leftmost, greedy,
\* non-overlapping matches; a position that starts no match is skipped.
RECURSIVE FindTokens(_)
FindTokens(t) ==
    IF t = <<>> THEN <<>>
    ELSE IF IsTokenStart(Head(t)) /\ TokenRun(t) >= 3
         THEN <<SubSeq(t, 1, TokenRun(t))>>
              \o FindTokens(SubSeq(t, TokenRun(t) + 1, Len(t)))
         ELSE FindTokens(Tail(t))

TOKEN_CAP == 2000

\* _tokenize_for_similarity(text): set(parts[:2000]) of the lower-cased text.
TokenizeForSimilarity(text) ==
    IF text = <<>> THEN {}
    ELSE LET parts == FindTokens(Lower(text))
         IN {parts[i] : i \in {j \in DOMAIN parts : j <= TOKEN_CAP}}

\* A rational n/d, d > 0.
Rat(n, d) == [n |-> n, d |-> d]
RatGt(x, y) == x.n * y.d > y.n * x.d

\* _jaccard_sim(a, b)
JaccardSim(a, b) ==
    IF a = {} \/ b = {} THEN Rat(0, 1)
    ELSE Rat(Cardinality(a \cap b), Cardinality(a \cup b))

(***************************************************************************)
(* _mmr_select                                                             *)
(***************************************************************************)
\* sim_to_sel: 0.0, raised to each larger similarity to an already selected item.
RECURSIVE SimToSel(_, _, _, _)
SimToSel(cands, cand, sel, acc) ==
    IF sel = <<>> THEN acc
    ELSE LET sim == JaccardSim(cands[cand].tokens, cands[Head(sel)].tokens)
         IN SimToSel(cands, cand, Tail(sel), IF RatGt(sim, acc) THEN sim ELSE acc)

\* score = lambda_weight * rrf - (1 - lambda_weight) * sim_to_sel, that is
\* (lam/10) * (rrf/RrfDen) - ((10 - lam)/10) * (sim.n/sim.d), given as the rational
\* score * 10 * RrfDen (the same positive factor for every candidate, so the
\* comparisons of the loop are those of the code).
MmrScore(cands, cand, sel, lam) ==
    LET sim == SimToSel(cands, cand, sel, Rat(0, 1))
    IN Rat(lam * cands[cand].rrf * sim.d - (10 - lam) * sim.n * RrfDen, sim.d)

\* A plausible slip: score >= best[0], so the latest of the best candidates is kept.
RECURSIVE MmrBestLastWins(_, _, _, _, _, _)
MmrBestLastWins(cands, sel, rem, lam, idx, best) ==
    IF idx > Len(rem) THEN best
    ELSE LET score == MmrScore(cands, rem[idx], sel, lam)
         IN MmrBestLastWins(cands, sel, rem, lam, idx + 1,
                            IF best = <<>> \/ ~RatGt(best[1], score) THEN <<score, idx>> ELSE best)

\* The inner for loop: best = (score, idx) is replaced only by a strictly larger
\* score, so the earliest of the best remaining candidates is kept.
RECURSIVE MmrBest(_, _, _, _, _, _)
MmrBest(cands, sel, rem, lam, idx, best) ==
    IF idx > Len(rem) THEN best
    ELSE LET score == MmrScore(cands, rem[idx], sel, lam)
         IN MmrBest(cands, sel, rem, lam, idx + 1,
                    IF best = <<>> \/ RatGt(score, best[1]) THEN <<score, idx>> ELSE best)

MmrPickIdx(cands, sel, rem, lam) == MmrBest(cands, sel, rem, lam, 1, <<>>)[2]

RemoveAt(s, i) == SubSeq(s, 1, i - 1) \o SubSeq(s, i + 1, Len(s))

\* A plausible slip: the pick is appended but never removed from remaining.
MmrTakeNoPop(sel, rem, pick) == [sel |-> Append(sel, rem[pick]), rem |-> rem]

\* selected.append(remaining.pop(pick_idx))
MmrTake(sel, rem, pick) == [sel |-> Append(sel, rem[pick]), rem |-> RemoveAt(rem, pick)]

\* A plausible slip: len(selected) <= k.
MmrContinueOffByOne(sel, rem, k) == rem # <<>> /\ Len(sel) <= k

\* while remaining and len(selected) < k
MmrContinue(sel, rem, k) == rem # <<>> /\ Len(sel) < k

\* The whole greedy loop, from (selected, remaining) to the final selected.
RECURSIVE MmrLoop(_, _, _, _, _)
MmrLoop(cands, sel, rem, k, lam) ==
    IF ~MmrContinue(sel, rem, k) THEN sel
    ELSE LET t == MmrTake(sel, rem, MmrPickIdx(cands, sel, rem, lam))
         IN MmrLoop(cands, t.sel, t.rem, k, lam)

\* c.setdefault("_tokens", _tokenize_for_similarity(c.get("text", "")))
WithTokens(cands) ==
    [i \in DOMAIN cands |->
        [source |-> cands[i].source, id |-> cands[i].id, text |-> cands[i].text,
         score |-> cands[i].score, rrf |-> cands[i].rrf,
         tokens |-> TokenizeForSimilarity(cands[i].text)]] \o <<>>

\* _mmr_select(candidates, k, lambda_weight) as a function of its arguments.
MmrSelect(cands, k, lam) ==
    IF cands = <<>> THEN <<>>
    ELSE LET toks == WithTokens(cands)
             sel == MmrLoop(toks, <<>>, [i \in DOMAIN cands |-> i], k, lam)
         IN [i \in DOMAIN sel |-> toks[sel[i]]]

\* lambda_weight values tried, in tenths; 7 is the default (0.7).
LambdaSet == {0, 7, 10}

\* Candidate lists the selector is called with: fused candidates carrying an rrf,
\* among them two with the same (source, id), as in pre-fusion data.
MmrPool ==
    { WithRrf(Cand(SrcIndex, <<"1">>, TxtQuickFox, 90), 2 * RrfTerm(RRF_K, 1)),
      WithRrf(Cand(SrcIndex, <<"1">>, TxtQuickFox, 500), RrfTerm(RRF_K, 1)),
      WithRrf(Cand(SrcIndex, <<"2">>, TxtRedFox, 90), RrfTerm(RRF_K, 1)),
      WithRrf(Cand(SrcEmb, <<"1">>, TxtEmpty, 65), RrfTerm(RRF_K, 2)) }

MmrIdle ==
    /\ candidates = <<>> /\ mmr_k = 0 /\ lambda_weight = 0
    /\ selected = <<>> /\ remaining = <<>> /\ mmr_out = <<>> /\ mpc = "off"

MmrInit ==
    /\ candidates \in SeqsUpTo(MmrPool, MaxCands)
    /\ mmr_k \in 0..MaxK
    /\ lambda_weight \in LambdaSet
    /\ selected = <<>> /\ remaining = <<>> /\ mmr_out = <<>>
    /\ mpc = "call"

\* Lines 806-812: the empty-input return, else the token precompute and
\* selected = [], remaining = candidates[:].
MmrEnter ==
    /\ mpc = "call"
    /\ IF candidates = <<>>
       THEN /\ mpc' = "done"
            /\ UNCHANGED <<candidates, selected, remaining, mmr_out>>
       ELSE /\ candidates' = WithTokens(candidates)
            /\ selected' = <<>>
            /\ remaining' = [i \in DOMAIN candidates |-> i]
            /\ mpc' = "loop"
            /\ UNCHANGED mmr_out
    /\ UNCHANGED <<mmr_k, lambda_weight>>
    /\ UNCHANGED mmrOthers

\* One iteration of the while loop (lines 813-829).
MmrIter ==
    /\ mpc = "loop"
    /\ MmrContinue(selected, remaining, mmr_k)
    /\ LET t == MmrTake(selected, remaining,
                        MmrPickIdx(candidates, selected, remaining, lambda_weight))
       IN /\ selected' = t.sel
          /\ remaining' = t.rem
    /\ UNCHANGED <<candidates, mmr_k, lambda_weight, mmr_out, mpc>>
    /\ UNCHANGED mmrOthers

\* The loop condition fails: return selected (line 830).
MmrExit ==
    /\ mpc = "loop"
    /\ ~MmrContinue(selected, remaining, mmr_k)
    /\ mmr_out' = [i \in DOMAIN selected |-> candidates[selected[i]]]
    /\ mpc' = "done"
    /\ UNCHANGED <<candidates, mmr_k, lambda_weight, selected, remaining>>
    /\ UNCHANGED mmrOthers

(***************************************************************************)
(* normalize_text, clean_text                                              *)
(*                                                                         *)
(* Characters with no plain spelling are written as names in angle         *)
(* brackets: "<shy>" U+00AD soft hyphen, "<tatweel>" U+0640, "<nl>" line   *)
(* feed, "<en>" U+2013, "<em>" U+2014, "<ell>" U+2026, "<ar,>" U+060C.     *)
(***************************************************************************)
\* \s
IsSpace(c) == c \in {" ", "<nl>"}
\* [A-Za-z؀-ۿ]
IsLetter(c) == c \in LowerLetters \cup UpperLetters \cup {"<tatweel>", "<ar,>"}
\* \d
IsDigit(c) == c \in Digits
\* \w
IsWord(c) == c \in LowerLetters \cup UpperLetters \cup Digits \cup {"_", "<tatweel>"}

\* Length of the run of whitespace starting at position i of t.
RECURSIVE SpaceRun(_, _)
SpaceRun(t, i) == IF i > Len(t) \/ ~IsSpace(t[i]) THEN 0 ELSE 1 + SpaceRun(t, i + 1)

\* str.replace(ch, ""): drop every occurrence of one character.
RECURSIVE DropChar(_, _)
DropChar(t, ch) ==
    IF t = <<>> THEN <<>>
    ELSE (IF Head(t) = ch THEN <<>> ELSE <<Head(t)>>) \o DropChar(Tail(t), ch)

\* re.sub(r"\s+", " ", t).strip()
RECURSIVE CollapseSpaces(_, _)
CollapseSpaces(t, i) ==
    IF i > Len(t) THEN <<>>
    ELSE IF IsSpace(t[i])
         THEN <<" ">> \o CollapseSpaces(t, i + SpaceRun(t, i))
         ELSE <<t[i]>> \o CollapseSpaces(t, i + 1)

Strip(t) ==
    LET keep == {i \in DOMAIN t : ~IsSpace(t[i])}
    IN IF keep = {} THEN <<>>
       ELSE SubSeq(t, CHOOSE i \in keep : \A j \in keep : i <= j,
                      CHOOSE i \in keep : \A j \in keep : j <= i)

CollapseAndStrip(t) == Strip(CollapseSpaces(t, 1))

\* normalize_text(text): drop tatweel, collapse whitespace, strip.
NormalizeText(t) ==
    IF t = <<>> THEN <<>> ELSE CollapseAndStrip(DropChar(t, "<tatweel>"))

\* re.sub(r"(?<=[A-Za-z..])\-\s+(?=[A-Za-z..])", "", t): a hyphen after a letter,
\* then whitespace, then a letter: the hyphen and the whitespace are removed.
RECURSIVE JoinHyphenated(_, _)
JoinHyphenated(t, i) ==
    IF i > Len(t) THEN <<>>
    ELSE LET w == SpaceRun(t, i + 1)
         IN IF /\ t[i] = "-"
               /\ i > 1 /\ IsLetter(t[i - 1])
               /\ w >= 1
               /\ i + w + 1 <= Len(t) /\ IsLetter(t[i + w + 1])
            THEN JoinHyphenated(t, i + w + 1)
            ELSE <<t[i]>> \o JoinHyphenated(t, i + 1)

\* gid\d{5} (IGNORECASE) matches at position i of t.
GidAt(t, i) ==
    /\ i + 7 <= Len(t)
    /\ LowerChar(t[i]) = "g" /\ LowerChar(t[i + 1]) = "i" /\ LowerChar(t[i + 2]) = "d"
    /\ \A j \in (i + 3)..(i + 7) : IsDigit(t[j])

\* End (exclusive) of the longest match of (?:\s*/gid\d{5})+ whose next group
\* would start at position i; i itself when no further group matches.
RECURSIVE GidPathEnd(_, _)
GidPathEnd(t, i) ==
    LET j == i + SpaceRun(t, i)
    IN IF j <= Len(t) /\ t[j] = "/" /\ GidAt(t, j + 1)
       THEN GidPathEnd(t, j + 9)
       ELSE i

\* re.sub(r"(?:\s*/gid\d{5})+", " ", t, flags=re.IGNORECASE)
RECURSIVE DropGidPaths(_, _)
DropGidPaths(t, i) ==
    IF i > Len(t) THEN <<>>
    ELSE IF GidPathEnd(t, i) > i
         THEN <<" ">> \o DropGidPaths(t, GidPathEnd(t, i))
         ELSE <<t[i]>> \o DropGidPaths(t, i + 1)

\* re.sub(r"gid\d{5}", " ", t, flags=re.IGNORECASE)
RECURSIVE DropGidTokens(_, _)
DropGidTokens(t, i) ==
    IF i > Len(t) THEN <<>>
    ELSE IF GidAt(t, i)
         THEN <<" ">> \o DropGidTokens(t, i + 8)
         ELSE <<t[i]>> \o DropGidTokens(t, i + 1)

\* re.sub(r"\s*/\s*", " / ", t)
RECURSIVE SpaceSlashes(_, _)
SpaceSlashes(t, i) ==
    IF i > Len(t) THEN <<>>
    ELSE LET j == i + SpaceRun(t, i)
         IN IF j <= Len(t) /\ t[j] = "/"
            THEN <<" ", "/", " ">> \o SpaceSlashes(t, j + 1 + SpaceRun(t, j + 1))
            ELSE <<t[i]>> \o SpaceSlashes(t, i + 1)

\* The class [\w؀-ۿ\.\,;:!\?\-()\[\]\{\}\s] that the gibberish pattern negates.
IsKept(c) ==
    \/ IsWord(c) \/ IsLetter(c) \/ IsSpace(c)
    \/ c \in {".", ",", ";", ":", "!", "?", "-", "(", ")", "[", "]", "{", "}"}

RECURSIVE GibberishRun(_, _)
GibberishRun(t, i) ==
    IF i > Len(t) \/ IsKept(t[i]) THEN 0 ELSE 1 + GibberishRun(t, i + 1)

\* re.sub(r"[^\w؀-ۿ\.\,;:!\?\-()\[\]\{\}\s]+", " ", t)
RECURSIVE DropGibberish(_, _)
DropGibberish(t, i) ==
    IF i > Len(t) THEN <<>>
    ELSE IF ~IsKept(t[i])
         THEN <<" ">> \o DropGibberish(t, i + GibberishRun(t, i))
         ELSE <<t[i]>> \o DropGibberish(t, i + 1)

\* t.replace("–", "-").replace("—", "-").replace("…", "...")
RECURSIVE NormalizeDashes(_)
NormalizeDashes(t) ==
    IF t = <<>> THEN <<>>
    ELSE (CASE Head(t) \in {"<en>", "<em>"} -> <<"-">>
            [] Head(t) = "<ell>" -> <<".", ".", ".">>
            [] OTHER -> <<Head(t)>>)
         \o NormalizeDashes(Tail(t))

RECURSIVE SameRun(_, _, _)
SameRun(t, i, ch) == IF i > Len(t) \/ t[i] # ch THEN 0 ELSE 1 + SameRun(t, i + 1, ch)

\* re.sub(r"([\.!?،])\1{2,}", r"\1\1", t): three or more of one mark become two.
RECURSIVE CollapsePunct(_, _)
CollapsePunct(t, i) ==
    IF i > Len(t) THEN <<>>
    ELSE IF t[i] \in {".", "!", "?", "<ar,>"} /\ SameRun(t, i, t[i]) >= 3
         THEN <<t[i], t[i]>> \o CollapsePunct(t, i + SameRun(t, i, t[i]))
         ELSE <<t[i]>> \o CollapsePunct(t, i + 1)

\* clean_text(text)
CleanText(text) ==
    IF text = <<>> THEN <<>>
    ELSE LET t1 == DropChar(text, "<shy>")
             t2 == JoinHyphenated(t1, 1)
             t3 == DropGidPaths(t2, 1)
             t4 == DropGidTokens(t3, 1)
             t5 == SpaceSlashes(t4, 1)
             t6 == DropGibberish(t5, 1)
             t7 == NormalizeDashes(t6)
             t8 == CollapsePunct(t7, 1)
         IN CollapseAndStrip(t8)

\* Pieces the texts handed to clean_text are put together from.
CleanPieces ==
    { <<"a">>, <<"-">>, <<" ">>, <<"/">>, <<"#">>, <<".">>, <<"<shy>">>,
      <<"g","i","d","0","0","0","1","7">> }

CleanIdle == raw_text = <<>> /\ cleaned = <<>> /\ recleaned = <<>> /\ cpc = "off"

CleanInit ==
    /\ raw_text \in {Flatten(ps) : ps \in SeqsUpTo(CleanPieces, MaxPieces)}
    /\ cleaned = <<>> /\ recleaned = <<>>
    /\ cpc = "call"

\* cleaned = clean_text(raw_text)
CleanOnce ==
    /\ cpc = "call"
    /\ cleaned' = CleanText(raw_text)
    /\ cpc' = "once"
    /\ UNCHANGED <<raw_text, recleaned>>
    /\ UNCHANGED cleanOthers

\* recleaned = clean_text(cleaned)
CleanAgain ==
    /\ cpc = "once"
    /\ recleaned' = CleanText(cleaned)
    /\ cpc' = "twice"
    /\ UNCHANGED <<raw_text, cleaned>>
    /\ UNCHANGED cleanOthers

(***************************************************************************)
(* The tables and _load_corpus                                             *)
(*                                                                         *)
(* A table is the sequence of its rows [id, text] in ascending primary-key *)
(* order (node_id for gasable_index, id for documents and embeddings).     *)
(***************************************************************************)
Row(id, txt) == [id |-> id, text |-> txt]

Reverse(s) == [i \in DOMAIN s |-> s[Len(s) + 1 - i]] \o <<>>

\* The first n items of s (s[:n], LIMIT n).
Take(s, n) == SubSeq(s, 1, IF n < Len(s) THEN n ELSE Len(s))

\* WHERE text IS NOT NULL AND text <> ''
RECURSIVE NonEmptyRows(_)
NonEmptyRows(rows) ==
    IF rows = <<>> THEN <<>>
    ELSE (IF Head(rows).text # <<>> THEN <<Head(rows)>> ELSE <<>>) \o NonEmptyRows(Tail(rows))

\* (f"{source}:{r[0]}", clean_text(r[1])) for each fetched row.
CorpusItems(src, rows) ==
    [i \in DOMAIN rows |->
        [doc_id |-> src \o <<":">> \o rows[i].id, text |-> CleanText(rows[i].text)]]

\* _load_corpus(limit_per_table) on reachable tables.
LoadCorpus(tables, limit) ==
    CorpusItems(SrcIndex, Take(NonEmptyRows(tables.gasable_index), limit))
       \o CorpusItems(SrcDocs, Take(Reverse(tables.documents), limit))
       \o CorpusItems(SrcEmb, Take(Reverse(tables.embeddings), limit))

(***************************************************************************)
(* _build_bm25_index, _get_bm25_state                                      *)
(***************************************************************************)
\* str.split(): the maximal runs of non-whitespace characters.
RECURSIVE WordRun(_, _)
WordRun(t, i) == IF i > Len(t) \/ IsSpace(t[i]) THEN 0 ELSE 1 + WordRun(t, i + 1)

RECURSIVE SplitWords(_, _)
SplitWords(t, i) ==
    IF i > Len(t) THEN <<>>
    ELSE IF IsSpace(t[i]) THEN SplitWords(t, i + 1)
         ELSE <<SubSeq(t, i, i + WordRun(t, i) - 1)>> \o SplitWords(t, i + WordRun(t, i))

\* A plausible slip: documents without tokens are indexed too.
RECURSIVE IndexDocsKeepEmpty(_)
IndexDocsKeepEmpty(corpus) ==
    IF corpus = <<>> THEN <<>>
    ELSE LET norm == NormalizeText(Head(corpus).text)
         IN <<[doc_id |-> Head(corpus).doc_id, text |-> norm, tokens |-> SplitWords(norm, 1)]>>
            \o IndexDocsKeepEmpty(Tail(corpus))

\* The loop of _build_bm25_index: documents with no token are skipped; rows and
\* tokens grow together.
RECURSIVE IndexDocs(_)
IndexDocs(corpus) ==
    IF corpus = <<>> THEN <<>>
    ELSE LET norm == NormalizeText(Head(corpus).text)
             ts == SplitWords(norm, 1)
         IN (IF ts = <<>> THEN <<>>
             ELSE <<[doc_id |-> Head(corpus).doc_id, text |-> norm, tokens |-> ts]>>)
            \o IndexDocs(Tail(corpus))

\* The dict assigned to BM25_STATE at the end of _build_bm25_index.
BuiltIndex(corpus, at) ==
    LET docs == IndexDocs(corpus)
    IN [built_at |-> at,
        rows |-> [i \in DOMAIN docs |-> [doc_id |-> docs[i].doc_id, text |-> docs[i].text]],
        tokens |-> [i \in DOMAIN docs |-> docs[i].tokens],
        has_bm25 |-> docs # <<>>,
        doc_count |-> Len(docs)]

\* A plausible slip: the age is compared with >= instead of >.
NeedsRebuildAtTtl(state, now, ttl) ==
    \/ state = <<>>
    \/ state # <<>> /\ now - state[1].built_at >= ttl

\* _get_bm25_state: BM25_STATE is None, or time.time() - built_at > ttl.
NeedsRebuild(state, now, ttl) ==
    \/ state = <<>>
    \/ state # <<>> /\ now - state[1].built_at > ttl

\* RAG_CORPUS_LIMIT as read by _build_bm25_index, scaled to the model's tables.
CorpusLimit == 2

\* RAG_BM25_TTL_SEC values tried.
TtlChoices == {1, 2}

\* Example tables.
TablesEmpty == [gasable_index |-> <<>>, documents |-> <<>>, embeddings |-> <<>>]
TablesA ==
    [gasable_index |-> << Row(<<"a">>, TxtQuickFox), Row(<<"b">>, TxtRedFox) >>,
     documents |-> << Row(<<"1">>, TxtEmpty) >>,
     embeddings |-> <<>>]
TablesB ==
    [gasable_index |-> << Row(<<"a">>, TxtQuickFox), Row(<<"seed_gasable">>, TxtGasable) >>,
     documents |-> << Row(<<"1">>, TxtRedFox) >>,
     embeddings |-> << Row(<<"7">>, TxtGasable) >>]

TableChoices == {TablesEmpty, TablesA, TablesB}

CacheIdle ==
    /\ BM25_STATE = <<>> /\ clock = 0 /\ db = TablesEmpty /\ bm_ttl = 0
    /\ bm_calls = 0 /\ bm_loads = 0 /\ bm_builds = 0 /\ bm_last = "none" /\ bpc = "off"

\* After import: BM25_STATE = None (line 229).
CacheInit ==
    /\ BM25_STATE = <<>>
    /\ clock = 0
    /\ db \in TableChoices
    /\ bm_ttl \in TtlChoices
    /\ bm_calls = 0 /\ bm_loads = 0 /\ bm_builds = 0
    /\ bm_last = "none"
    /\ bpc = "run"

\* Time passes between calls.
Tick ==
    /\ bpc = "run"
    /\ clock < MaxClock
    /\ clock' = clock + 1
    /\ UNCHANGED <<BM25_STATE, db, bm_ttl, bm_calls, bm_loads, bm_builds, bm_last, bpc>>
    /\ UNCHANGED cacheOthers

\* Ingestion changes the tables.
TablesChange ==
    /\ bpc = "run"
    /\ \E t \in TableChoices : t # db /\ db' = t
    /\ UNCHANGED <<BM25_STATE, clock, bm_ttl, bm_calls, bm_loads, bm_builds, bm_last, bpc>>
    /\ UNCHANGED cacheOthers

\* A plausible slip: the rebuild drops the old index (BM25_STATE = None) before it
\* loads the corpus, so a failed load leaves no index.
GetBm25StateClearsFirst ==
    /\ bpc = "run"
    /\ bm_calls < MaxCalls
    /\ bm_calls' = bm_calls + 1
    /\ IF NeedsRebuild(BM25_STATE, clock, bm_ttl)
       THEN \E ok \in BOOLEAN, took \in {0, 1} :
              /\ clock + took <= MaxClock
              /\ clock' = clock + took
              /\ bm_loads' = bm_loads + 1
              /\ IF ok
                 THEN /\ BM25_STATE' = <<BuiltIndex(LoadCorpus(db, CorpusLimit), clock')>>
                      /\ bm_builds' = bm_builds + 1
                      /\ bm_last' = "built"
                 ELSE /\ bm_last' = "raised"
                      /\ BM25_STATE' = <<>>
                      /\ UNCHANGED bm_builds
       ELSE /\ bm_last' = "reused"
            /\ UNCHANGED <<BM25_STATE, clock, bm_loads, bm_builds>>
    /\ UNCHANGED <<db, bm_ttl, bpc>>
    /\ UNCHANGED cacheOthers

\* One call of _get_bm25_state(), with the _build_bm25_index() it may make.  The
\* load takes `took` seconds; built_at is read after it.  When the database
\* cannot be read (`ok` false) _load_corpus raises before BM25_STATE is assigned.
GetBm25State ==
    /\ bpc = "run"
    /\ bm_calls < MaxCalls
    /\ bm_calls' = bm_calls + 1
    /\ IF NeedsRebuild(BM25_STATE, clock, bm_ttl)
       THEN \E ok \in BOOLEAN, took \in {0, 1} :
              /\ clock + took <= MaxClock
              /\ clock' = clock + took
              /\ bm_loads' = bm_loads + 1
              /\ IF ok
                 THEN /\ BM25_STATE' = <<BuiltIndex(LoadCorpus(db, CorpusLimit), clock')>>
                      /\ bm_builds' = bm_builds + 1
                      /\ bm_last' = "built"
                 ELSE /\ bm_last' = "raised"
                      /\ UNCHANGED <<BM25_STATE, bm_builds>>
       ELSE /\ bm_last' = "reused"
            /\ UNCHANGED <<BM25_STATE, clock, bm_loads, bm_builds>>
    /\ UNCHANGED <<db, bm_ttl, bpc>>
    /\ UNCHANGED cacheOthers

(***************************************************************************)
(* _keyword_sql_prefilter, _brand_boost_candidates                         *)
(***************************************************************************)
\* Python's `p in t` on strings.
MatchAt(t, i, p) ==
    /\ i + Len(p) - 1 <= Len(t)
    /\ \A j \in DOMAIN p : t[i + j - 1] = p[j]
Contains(t, p) == \E i \in 1..(Len(t) + 1) : MatchAt(t, i, p)

\* SQL: t ILIKE '%' || p || '%', where '_' in p stands for any one character.
ILikeAt(t, i, p) ==
    /\ i + Len(p) - 1 <= Len(t)
    /\ \A j \in DOMAIN p : p[j] = "_" \/ LowerChar(t[i + j - 1]) = LowerChar(p[j])
ILike(t, p) == \E i \in 1..(Len(t) + 1) : ILikeAt(t, i, p)

\* The seed keyword list of lines 587-591 (the Arabic list of lines 595-599 can
\* match no query of this model, which holds no Arabic letters).
DomainKeywords ==
    { <<"c","o","n","t","r","a","c","t">>, <<"c","o","n","t","r","a","c","t","s">>,
      <<"s","u","p","p","l","i","e","r">>, <<"s","u","p","p","l","i","e","r","s">>,
      <<"d","i","e","s","e","l">>, <<"f","u","e","l">>,
      <<"a","g","r","e","e","m","e","n","t">>, <<"t","e","r","m","s">>,
      <<"p","r","i","c","i","n","g">>, <<"s","o","w">>,
      <<"s","l","a">>, <<"r","f","q">>,
      <<"t","e","n","d","e","r">>, <<"b","i","d">>,
      <<"p","r","o","c","u","r","e","m","e","n","t">>, <<"s","c","o","p","e">>,
      <<"d","e","l","i","v","e","r","a","b","l","e","s">>, <<"p","e","n","a","l","t","i","e","s">>,
      <<"l","i","a","b","i","l","i","t","y">>, <<"p","a","y","m","e","n","t">>,
      <<"i","n","c","o","t","e","r","m","s">>, <<"d","e","l","i","v","e","r","y">>,
      <<"q","u","a","n","t","i","t","y">>, <<"q","u","a","l","i","t","y">>,
      <<"s","p","e","c","i","f","i","c","a","t","i","o","n">> }

StopWords ==
    { <<"t","h","e">>, <<"a","n","d">>, <<"f","o","r">>, <<"w","i","t","h">>,
      <<"f","r","o","m">>, <<"t","h","i","s">>, <<"t","h","a","t">>, <<"i","n","t","o">>,
      <<"y","o","u","r">>, <<"y","o","u">>, <<"a","r","e">>, <<"w","a","s">>,
      <<"w","e","r","e">>, <<"h","a","v","e">>, <<"h","a","s">>, <<"h","a","d">>,
      <<"c","a","n">>, <<"w","i","l","l">>, <<"s","h","o","u","l","d">>, <<"a","b","o","u","t">> }

IotTriggers ==
    { <<"i","o","t">>,
      <<"i","n","t","e","r","n","e","t"," ","o","f"," ","t","h","i","n","g","s">> }

IotSynonyms ==
    { <<"s","e","n","s","o","r">>, <<"s","e","n","s","o","r","s">>,
      <<"u","l","t","r","a","s","o","n","i","c">>, <<"p","r","o","b","e">>,
      <<"g","p","s">>, <<"t","r","a","c","k","e","r">>,
      <<"t","r","a","c","k","i","n","g">>, <<"m","o","b","i","l","e"," ","d","v","r">>,
      <<"d","v","r">>, <<"s","m","a","r","t"," ","m","e","t","e","r">>,
      <<"m","e","t","e","r">>, <<"l","i","q","u","i","d"," ","l","e","v","e","l">>,
      <<"l","e","v","e","l">>, <<"r","e","m","o","t","e"," ","m","o","n","i","t","o","r","i","n","g">>,
      <<"t","e","l","e","m","e","t","r","y">>, <<"l","o","c","k">>,
      <<"s","m","a","r","t"," ","l","o","c","k">>, <<"v","a","l","v","e">>,
      <<"h","a","t","c","h">>, <<"c","o","n","t","r","o","l","l","e","r">>,
      <<"t","e","m","p","e","r","a","t","u","r","e">>, <<"f","u","e","l">>,
      <<"d","i","e","s","e","l">>, <<"l","p","g">>,
      <<"t","a","m","p","e","r">>, <<"v","a","n","d","a","l","i","s","m">> }

BrandIotTerms ==
    { <<"s","e","n","s","o","r">>, <<"u","l","t","r","a","s","o","n","i","c">>,
      <<"t","r","a","c","k","e","r">>, <<"r","e","m","o","t","e"," ","m","o","n","i","t","o","r","i","n","g">>,
      <<"s","m","a","r","t">>, <<"m","e","t","e","r">>,
      <<"t","e","l","e","m","e","t","r","y">>, <<"l","o","c","k">> }

KwGasable == <<"g","a","s","a","b","l","e">>

\* query_tokens[:10]
KW_TOKEN_CAP == 10

\* The keyword set built in lines 584-621.
QueryKeywords(query) ==
    LET q_norm == Lower(NormalizeText(query))
        toks == Take(FindTokens(q_norm), KW_TOKEN_CAP)
    IN {kw \in DomainKeywords : Contains(q_norm, kw)}
       \cup {toks[i] : i \in {j \in DOMAIN toks : toks[j] \notin StopWords}}
       \cup (IF \E t \in IotTriggers : Contains(q_norm, t) THEN IotSynonyms ELSE {})

\* The order in which the database hands back rows: primary-key order or its
\* reverse.  A query with an ORDER BY is asked for the order it names; a query
\* without one (the gasable_index prefilter), or one ordered by an opaque rank
\* or distance, may come back either way.
Scan(rows, order) == IF order = "asc" THEN rows ELSE Reverse(rows)

\* A plausible slip: LIKE instead of ILIKE, the match is case-sensitive.
RECURSIVE MatchingRowsCaseSensitive(_, _)
MatchingRowsCaseSensitive(rows, kws) ==
    IF rows = <<>> THEN <<>>
    ELSE (IF \E kw \in kws : Contains(Head(rows).text, kw) THEN <<Head(rows)>> ELSE <<>>)
         \o MatchingRowsCaseSensitive(Tail(rows), kws)

\* WHERE text ILIKE %s OR text ILIKE %s ...
RECURSIVE MatchingRows(_, _)
MatchingRows(rows, kws) ==
    IF rows = <<>> THEN <<>>
    ELSE (IF \E kw \in kws : ILike(Head(rows).text, kw) THEN <<Head(rows)>> ELSE <<>>)
         \o MatchingRows(Tail(rows), kws)

\* left(COALESCE(text,''), 2000)
LEFT_CHARS == 2000

\* {"source": r[0], "id": r[1], "text": clean_text(r[2]), "score": sc} for r in rows
TaggedCands(src, rows, sc) ==
    [i \in DOMAIN rows |->
        Cand(src, rows[i].id, CleanText(Take(rows[i].text, LEFT_CHARS)), sc)] \o <<>>

\* _keyword_sql_prefilter(query) on a reachable database: [] when no keyword is
\* found, else the three per-table lists, each capped at limit_each.
KeywordSqlPrefilter(query, tables, limit_each, order) ==
    LET kws == QueryKeywords(query)
    IN IF kws = {} THEN <<>>
       ELSE << TaggedCands(SrcIndex,
                   Take(Scan(MatchingRows(tables.gasable_index, kws), order), limit_each), 75),
               TaggedCands(SrcDocs,
                   Take(Reverse(MatchingRows(tables.documents, kws)), limit_each), 70),
               TaggedCands(SrcEmb,
                   Take(Reverse(MatchingRows(tables.embeddings, kws)), limit_each), 65) >>

\* node_id LIKE 'web://https://www.gasable.com%' on an id given as atoms.
OfficialSiteAtoms == { <<"//www.gasable.com/#chunk-0">>, <<"//www.gasable.com/about#chunk-0">> }
IsOfficialSite(id) ==
    /\ Len(id) = 5
    /\ SubSeq(id, 1, 4) = <<"web", ":", "//https", ":">>
    /\ <<id[5]>> \in OfficialSiteAtoms

\* The `limit` of _brand_boost_candidates.
BRAND_LIMIT == 8

RECURSIVE SeedRows(_)
SeedRows(rows) ==
    IF rows = <<>> THEN <<>>
    ELSE (IF Head(rows).id = <<"seed_gasable">> THEN <<Head(rows)>> ELSE <<>>)
         \o SeedRows(Tail(rows))

RECURSIVE OfficialRows(_)
OfficialRows(rows) ==
    IF rows = <<>> THEN <<>>
    ELSE (IF IsOfficialSite(Head(rows).id) THEN <<Head(rows)>> ELSE <<>>)
         \o OfficialRows(Tail(rows))

RECURSIVE BrandIotRows(_)
BrandIotRows(rows) ==
    IF rows = <<>> THEN <<>>
    ELSE (IF /\ ILike(Head(rows).text, KwGasable)
             /\ \E t \in BrandIotTerms : ILike(Head(rows).text, t)
          THEN <<Head(rows)>> ELSE <<>>)
         \o BrandIotRows(Tail(rows))

\* _brand_boost_candidates(query): [] unless the query names the brand; [] when the
\* connection fails (the outer except); else seed fact, official site chunks and
\* brand rows with an IoT term, in that order.
BrandBoostCandidates(query, tables, reachable) ==
    IF ~Contains(Lower(NormalizeText(query)), KwGasable) THEN <<>>
    ELSE IF ~reachable THEN <<>>
    ELSE TaggedCands(SrcIndex, SeedRows(tables.gasable_index), 99)
         \o TaggedCands(SrcIndex, Take(OfficialRows(tables.gasable_index), BRAND_LIMIT), 95)
         \o TaggedCands(SrcIndex, Take(BrandIotRows(tables.gasable_index), BRAND_LIMIT), 90)

(***************************************************************************)
(* _vector_search_combined and the dense part of hybrid_search             *)
(***************************************************************************)
\* RAG_K_DENSE_EACH, RAG_K_DENSE_FUSE
K_DENSE_EACH == 8
K_DENSE_FUSE == 10

\* The rows in `order` of increasing distance, each with a similarity that falls
\* with its place: first, then first - step, ...
ScoredCands(src, rows, first, step) ==
    [i \in DOMAIN rows |->
        Cand(src, rows[i].id, CleanText(rows[i].text), first - step * (i - 1))] \o <<>>

\* _vector_search_combined(vec, k_each): the nearest gasable_index rows, then the
\* nearest embeddings rows once per embedding column that exists (cols is 1 or 2;
\* the query on a missing column raises and is skipped).
VectorSearchCombined(tables, order, cols, k_each) ==
    ScoredCands(SrcIndex, Take(Scan(tables.gasable_index, order), k_each), 90, 10)
    \o ScoredCands(SrcEmb, Take(Scan(tables.embeddings, order), k_each), 50, 10)
    \o (IF cols = 2
        THEN ScoredCands(SrcEmb, Take(Scan(tables.embeddings, order), k_each), 45, 10)
        ELSE <<>>)

\* res.sort(key=lambda r: r["score"], reverse=True); res[:k_fuse]
DenseListTo(res, k_fuse) ==
    LET keyed == [i \in DOMAIN res |-> [k |-> res[i].score, v |-> res[i]]] \o <<>>
        sorted == SortDesc(keyed)
    IN Take([i \in DOMAIN sorted |-> sorted[i].v], k_fuse)

\* The same with RAG_K_DENSE_FUSE at its default.
DenseList(res) == DenseListTo(res, K_DENSE_FUSE)

(***************************************************************************)
(* bm25_fallback and the lexical part of hybrid_search                     *)
(***************************************************************************)
\* RAG_K_LEX
K_LEX == 12

\* The lexemes of the 'simple' text search configuration: lower-cased runs of
\* letters, digits and underscores.
RECURSIVE WordsOf(_)
WordsOf(t) ==
    IF t = <<>> THEN {}
    ELSE IF TokenRun(t) >= 1
         THEN {SubSeq(t, 1, TokenRun(t))} \cup WordsOf(SubSeq(t, TokenRun(t) + 1, Len(t)))
         ELSE WordsOf(Tail(t))

Lexemes(t) == WordsOf(Lower(t))

\* WHERE tsv @@ plainto_tsquery('simple', q): every lexeme of q is in the row.
RECURSIVE FtsRows(_, _)
FtsRows(rows, q) ==
    IF rows = <<>> THEN <<>>
    ELSE (IF Lexemes(q) # {} /\ Lexemes(q) \subseteq Lexemes(Head(rows).text)
          THEN <<Head(rows)>> ELSE <<>>)
         \o FtsRows(Tail(rows), q)

\* bm25_fallback(query, k): (node_id, left(text, 2000), rank), best rank first.
Bm25Fallback(tables, q, k, order) ==
    LET hits == Take(Scan(FtsRows(tables.gasable_index, q), order), k)
    IN [i \in DOMAIN hits |->
          [did |-> hits[i].id, text |-> Take(hits[i].text, LEFT_CHARS),
           score |-> 10 * (Len(hits) + 1 - i)]] \o <<>>

\* did.split(":", 1): position of the first ':' of did, 0 when there is none.
FirstColon(did) ==
    IF \E i \in DOMAIN did : did[i] = ":"
    THEN CHOOSE i \in DOMAIN did : did[i] = ":" /\ \A j \in 1..(i - 1) : did[j] # ":"
    ELSE 0

\* did.split(":", 1)[1] raises IndexError when did holds no ':'.
LexListRaises(lex) == \E i \in DOMAIN lex : FirstColon(lex[i].did) = 0

\* The list comprehension of lines 898-901.
LexCands(lex) ==
    [i \in DOMAIN lex |->
        Cand(SubSeq(lex[i].did, 1, FirstColon(lex[i].did) - 1),
             SubSeq(lex[i].did, FirstColon(lex[i].did) + 1, Len(lex[i].did)),
             lex[i].text, lex[i].score)] \o <<>>

(***************************************************************************)
(* _rerank_llm                                                             *)
(***************************************************************************)
\* top = max(top_k, 12)
RERANK_MIN_TOP == 12

\* The comprehension of lines 774-778: entries that are objects with an in-range
\* "index" give candidates[index] | {"_rr": score}; the others are dropped.
RECURSIVE ScoredByResponse(_, _)
ScoredByResponse(cands, arr) ==
    IF arr = <<>> THEN <<>>
    ELSE (IF Head(arr).is_object /\ Head(arr).index >= 0 /\ Head(arr).index < Len(cands)
          THEN <<[k |-> Head(arr).score, v |-> cands[Head(arr).index + 1]]>>
          ELSE <<>>)
         \o ScoredByResponse(cands, Tail(arr))

\* _rerank_llm(query, candidates, top) given what the provider does: resp.kind is
\* "raise" (provider or parse exception), "not_array" (text not starting with '[',
\* read as []), or "array" with resp.arr the parsed entries.
RerankLlm(cands, top, has_key, resp) ==
    IF ~has_key \/ cands = <<>> THEN Take(cands, top)
    ELSE CASE resp.kind = "raise" -> Take(cands, top)
           [] resp.kind = "not_array" -> <<>>
           [] resp.kind = "array" ->
                LET sorted == SortDesc(ScoredByResponse(cands, resp.arr))
                IN Take([i \in DOMAIN sorted |-> sorted[i].v], top)

RerankEntry(ix, sc) == [is_object |-> TRUE, index |-> ix, score |-> sc]

\* Provider answers tried for n candidates: an exception, prose, every index
\* scored (later candidates higher), and index 0 named twice.
RerankResponses(n) ==
    { [kind |-> "raise", arr |-> <<>>],
      [kind |-> "not_array", arr |-> <<>>],
      [kind |-> "array", arr |-> [i \in 1..n |-> RerankEntry(i - 1, i)]],
      [kind |-> "array", arr |-> <<RerankEntry(0, 9), RerankEntry(0, 5)>>] }

(***************************************************************************)
(* The retrieval pipeline: hybrid_search, api_query, api_query_stream      *)
(***************************************************************************)
\* Node ids as written by ingestion ('file://<path>#chunk-<i>',
\* 'web://<url>#chunk-<i>') and by the brand seed ('seed_gasable').
IdSeed == <<"seed_gasable">>
IdFaq == <<"file", ":", "///faq#chunk-0">>
IdSite == <<"web", ":", "//https", ":", "//www.gasable.com/#chunk-0">>

\* A seeded database, a crawled one (brand text in two gasable_index rows, a chunk
\* with no text in embeddings), and an empty one.
TablesSeeded ==
    [gasable_index |-> <<Row(IdFaq, TxtQuickFox), Row(IdSeed, TxtGasable)>>,
     documents |-> <<Row(<<"1">>, TxtRedFox)>>,
     embeddings |-> <<Row(<<"7">>, TxtGasable)>>]
TablesCrawled ==
    [gasable_index |-> <<Row(IdFaq, TxtGasable), Row(IdSite, TxtGasable)>>,
     documents |-> <<>>,
     embeddings |-> <<Row(<<"7">>, TxtEmpty)>>]
PipeTables == {TablesEmpty, TablesSeeded, TablesCrawled}

QEmpty == <<>>
QBlank == <<" ", " ">>
QWhatIsGasable == <<"W","h","a","t"," ","i","s"," ","G","a","s","a","b","l","e">>
QGasableFuel == TxtGasable
QRedFox == TxtRedFox
\* "Gasable" as the eleventh word.
QLong == <<"a","a","a"," ","b","b","b"," ","c","c","c"," ","d","d","d"," ","e","e","e"," ","f","f","f"," ","g","g","g"," ","h","h","h"," ","i","i","i"," ","j","j","j"," ","G","a","s","a","b","l","e">>
QueryChoices == {QEmpty, QBlank, QWhatIsGasable, QGasableFuel, QRedFox, QLong}

\* An alternative phrasing the expansion model may add.
AltQuery == TxtQuickFox

Entries == {"api_query", "api_query_stream", "hybrid_search"}

\* RAG_KW_PREFILTER_LIMIT values tried: a limit below the number of matching rows
\* of the crawled database, and the default.
KwLimits == {1, 25}
\* top_k values tried: the endpoints pass RAG_TOP_K, left at its default 6; a
\* direct caller of hybrid_search passes 1 or 6.
TopKs(e) == IF e = "hybrid_search" THEN {1, 6} ELSE {6}
\* RAG_BRAND_BOOST_WEIGHT
BOOST_WEIGHT == 3
\* RAG_MMR_LAMBDA, in tenths
MMR_LAMBDA == 7

PipeIdle ==
    /\ entry = "" /\ q_in = <<>> /\ qry = <<>> /\ api_key = FALSE /\ kw_limit = 0
    /\ top_k = 0 /\ p_db = TablesEmpty /\ ppc = "off" /\ expanded = <<>>
    /\ dense_lists = <<>> /\ lex_lists = <<>> /\ kw_lists = <<>> /\ boost = <<>>
    /\ fuse_in = <<>> /\ p_fused = <<>> /\ p_reranked = <<>> /\ ctx_rows = <<>>
    /\ outcome = "" /\ raised_in = "" /\ failed = {} /\ invoked = {} /\ events = <<>>

PipeInit ==
    /\ entry \in Entries
    /\ q_in \in QueryChoices
    /\ api_key \in BOOLEAN
    /\ kw_limit \in KwLimits
    /\ top_k \in TopKs(entry)
    /\ p_db \in PipeTables
    /\ qry = <<>> /\ ppc = "start" /\ expanded = <<>>
    /\ dense_lists = <<>> /\ lex_lists = <<>> /\ kw_lists = <<>> /\ boost = <<>>
    /\ fuse_in = <<>> /\ p_fused = <<>> /\ p_reranked = <<>> /\ ctx_rows = <<>>
    /\ outcome = "running" /\ raised_in = "" /\ failed = {} /\ invoked = {}
    /\ events = <<>>

pipeConfig == <<entry, q_in, api_key, kw_limit, top_k, p_db>>

\* yield {"event": "step", ...} in api_query_stream; the other entries yield nothing.
Yield(name) ==
    IF entry = "api_query_stream"
    THEN Append(events, [event |-> "step", step |-> name, error |-> FALSE, context_ids |-> <<>>])
    ELSE events

\* The event that ends a stream: line 1087 with the answer and the context ids, or
\* line 1089 with the error.
FinalEvent(ids, err) == [event |-> "final", step |-> "", error |-> err, context_ids |-> ids]

\* A plausible slip: the final event is followed by the error event of the except
\* clause.
YieldFinalTwice(ids, err) ==
    IF entry = "api_query_stream"
    THEN Append(Append(events, FinalEvent(ids, err)), FinalEvent(<<>>, TRUE))
    ELSE events

\* yield {"event": "final", ...} in api_query_stream.
YieldFinal(ids, err) ==
    IF entry = "api_query_stream" THEN Append(events, FinalEvent(ids, err)) ELSE events

\* An exception leaves the step `step`: hybrid_search lets it propagate, api_query
\* turns it into a 500 response, api_query_stream into a final error event.
Raise(step) ==
    /\ raised_in' = step
    /\ ppc' = "done"
    /\ outcome' = IF entry = "hybrid_search" THEN "raised" ELSE "error"
    /\ events' = YieldFinal(<<>>, TRUE)

\* The step after query expansion: hybrid_search loads the corpus (line 882), the
\* streaming endpoint goes straight to dense retrieval.
AfterExpand == IF entry = "api_query_stream" THEN "dense" ELSE "corpus"

\* api_query lines 1005-1013; api_query_stream lines 1032-1033; hybrid_search line 880.
PipeReceive ==
    /\ ppc = "start"
    /\ IF entry = "api_query" /\ Strip(q_in) = <<>>
       THEN /\ outcome' = "empty_query"
            /\ ppc' = "done"
            /\ UNCHANGED <<qry, events>>
       ELSE /\ qry' = IF entry = "api_query" THEN Strip(q_in) ELSE q_in
            /\ ppc' = "expand"
            /\ events' = Yield("received_query")
            /\ UNCHANGED outcome
    /\ UNCHANGED <<pipeConfig, expanded, dense_lists, lex_lists, kw_lists, boost,
                   fuse_in, p_fused, p_reranked, ctx_rows, raised_in, failed, invoked>>
    /\ UNCHANGED pipeOthers

\* _generate_query_expansions(q, lang): [q] without a key or when the provider
\* or the parse fails, else q followed by the alternatives that differ from it.
PipeExpand ==
    /\ ppc = "expand"
    /\ invoked' = invoked \cup {"expansion"}
    /\ \E ok \in BOOLEAN :
          expanded' = IF api_key /\ ok THEN <<qry, AltQuery>> ELSE <<qry>>
    /\ events' = Yield("expansions")
    /\ ppc' = AfterExpand
    /\ UNCHANGED <<pipeConfig, qry, dense_lists, lex_lists, kw_lists, boost, fuse_in,
                   p_fused, p_reranked, ctx_rows, outcome, raised_in, failed>>
    /\ UNCHANGED pipeOthers

\* corpus = _load_corpus(...) of hybrid_search: the result is not used, a database
\* error propagates.
PipeLoadCorpus ==
    /\ ppc = "corpus"
    /\ \E ok \in BOOLEAN :
          IF ok
          THEN /\ ppc' = "dense"
               /\ UNCHANGED <<outcome, raised_in, failed, events>>
          ELSE /\ failed' = failed \cup {"corpus"}
               /\ Raise("corpus")
    /\ UNCHANGED <<pipeConfig, qry, expanded, dense_lists, lex_lists, kw_lists, boost,
                   fuse_in, p_fused, p_reranked, ctx_rows, invoked>>
    /\ UNCHANGED pipeOthers

\* Lines 884-893 (1039-1049): embed_queries then one search per vector; an
\* exception ends the loop, keeps the lists appended so far and is swallowed
\* (here: embed_queries raises, the first search raises, or nothing raises).
PipeDense ==
    /\ ppc = "dense"
    /\ IF api_key /\ expanded # <<>>
       THEN \E embed_ok \in BOOLEAN, searched \in {0, Len(expanded)},
               order \in {"asc", "desc"}, cols \in {1, 2} :
              LET done == IF embed_ok THEN searched ELSE 0
                  res == VectorSearchCombined(p_db, order, cols, K_DENSE_EACH)
                  broke == ~embed_ok \/ searched < Len(expanded)
              IN /\ dense_lists' = [i \in 1..done |-> DenseList(res)]
                 /\ invoked' = invoked \cup {"embedding"}
                                 \cup (IF embed_ok THEN {"dense_search"} ELSE {})
                 /\ failed' = IF broke THEN failed \cup {"dense"} ELSE failed
                 /\ ppc' = "lex"
                 /\ events' = Yield(IF broke THEN "dense_error" ELSE "dense_retrieval")
                 /\ UNCHANGED <<outcome, raised_in>>
       ELSE /\ ppc' = "lex"
            /\ UNCHANGED <<dense_lists, invoked, failed, events, outcome, raised_in>>
    /\ UNCHANGED <<pipeConfig, qry, expanded, lex_lists, kw_lists, boost, fuse_in,
                   p_fused, p_reranked, ctx_rows>>
    /\ UNCHANGED pipeOthers

\* Lines 895-901 (1052-1059): bm25_fallback per expanded query, each hit's node id
\* split at its first ':'.  A database error, or the IndexError of a node id with
\* no ':', propagates.
PipeLexical ==
    /\ ppc = "lex"
    /\ invoked' = invoked \cup {"lexical"}
    /\ \E ok \in BOOLEAN, order \in {"asc", "desc"} :
          LET lex == [i \in DOMAIN expanded |-> Bm25Fallback(p_db, expanded[i], K_LEX, order)]
          IN IF ~ok
             THEN /\ failed' = failed \cup {"lexical"}
                  /\ Raise("lexical")
                  /\ UNCHANGED lex_lists
             ELSE IF \E i \in DOMAIN lex : LexListRaises(lex[i])
             THEN /\ Raise("split")
                  /\ UNCHANGED <<lex_lists, failed>>
             ELSE /\ lex_lists' = [i \in DOMAIN lex |-> LexCands(lex[i])]
                  /\ ppc' = "kw"
                  /\ events' = Yield("lex_retrieval")
                  /\ UNCHANGED <<outcome, raised_in, failed>>
    /\ UNCHANGED <<pipeConfig, qry, expanded, dense_lists, kw_lists, boost, fuse_in,
                   p_fused, p_reranked, ctx_rows>>
    /\ UNCHANGED pipeOthers

\* kw_lists = _keyword_sql_prefilter(query); a database error propagates.
PipeKeyword ==
    /\ ppc = "kw"
    /\ invoked' = invoked \cup {"keyword"}
    /\ \E ok \in BOOLEAN, order \in {"asc", "desc"} :
          IF ~ok /\ QueryKeywords(qry) # {}
          THEN /\ failed' = failed \cup {"keyword"}
               /\ Raise("keyword")
               /\ UNCHANGED kw_lists
          ELSE /\ kw_lists' = KeywordSqlPrefilter(qry, p_db, kw_limit, order)
               /\ ppc' = "boost"
               /\ events' = IF kw_lists' # <<>> THEN Yield("keyword_prefilter") ELSE events
               /\ UNCHANGED <<outcome, raised_in, failed>>
    /\ UNCHANGED <<pipeConfig, qry, expanded, dense_lists, lex_lists, boost, fuse_in,
                   p_fused, p_reranked, ctx_rows>>
    /\ UNCHANGED pipeOthers

\* boost = _brand_boost_candidates(query); it swallows its own database errors.
PipeBoost ==
    /\ ppc = "boost"
    /\ invoked' = invoked \cup {"brand_boost"}
    /\ \E reachable \in BOOLEAN :
          /\ boost' = BrandBoostCandidates(qry, p_db, reachable)
          /\ failed' = IF ~reachable /\ Contains(Lower(NormalizeText(qry)), KwGasable)
                       THEN failed \cup {"brand_boost"} ELSE failed
    /\ events' = IF boost' # <<>> THEN Yield("brand_boost") ELSE events
    /\ ppc' = "fuse"
    /\ UNCHANGED <<pipeConfig, qry, expanded, dense_lists, lex_lists, kw_lists, fuse_in,
                   p_fused, p_reranked, ctx_rows, outcome, raised_in>>
    /\ UNCHANGED pipeOthers

\* [lst for lst in kw_lists if lst]
RECURSIVE NonEmptyLists(_)
NonEmptyLists(lists) ==
    IF lists = <<>> THEN <<>>
    ELSE (IF Head(lists) # <<>> THEN <<Head(lists)>> ELSE <<>>) \o NonEmptyLists(Tail(lists))

\* The lists handed to _rrf_fuse: hybrid_search lines 905-911 repeat the boost list
\* max(1, boost_weight) times, api_query_stream line 1069 adds it once.
FuseArgumentOf(e) ==
    dense_lists \o lex_lists \o NonEmptyLists(kw_lists)
    \o (IF boost = <<>> THEN <<>>
        ELSE IF e = "api_query_stream" THEN <<boost>>
        ELSE [i \in 1..(IF BOOST_WEIGHT > 1 THEN BOOST_WEIGHT ELSE 1) |-> boost])

FuseArgument == FuseArgumentOf(entry)

\* fused = _rrf_fuse(lists)
PipeFuse ==
    /\ ppc = "fuse"
    /\ fuse_in' = FuseArgument
    /\ p_fused' = RrfFuse(FuseArgument, RRF_K)
    /\ events' = Yield("fusion")
    /\ ppc' = "rerank"
    /\ UNCHANGED <<pipeConfig, qry, expanded, dense_lists, lex_lists, kw_lists, boost,
                   p_reranked, ctx_rows, outcome, raised_in, failed, invoked>>
    /\ UNCHANGED pipeOthers

\* reranked = _rerank_llm(query, fused, top=max(top_k, 12))
PipeRerank ==
    /\ ppc = "rerank"
    /\ \E resp \in RerankResponses(Len(p_fused)) :
          p_reranked' = RerankLlm(p_fused, IF top_k > RERANK_MIN_TOP THEN top_k
                                           ELSE RERANK_MIN_TOP, api_key, resp)
    /\ events' = Yield("rerank")
    /\ ppc' = "select"
    /\ UNCHANGED <<pipeConfig, qry, expanded, dense_lists, lex_lists, kw_lists, boost,
                   fuse_in, p_fused, ctx_rows, outcome, raised_in, failed, invoked>>
    /\ UNCHANGED pipeOthers

\* (f"{r['source']}:{r['id']}", r.get("text", ""), float(r.get("score", 0.0)))
ContextRow(r) == [id |-> CandKey(r), text |-> r.text, score |-> r.score]

\* A plausible slip: the top hit is read as mmr[0] before the rows are built, which
\* raises IndexError when nothing was selected.
PipeSelectReadsTopHit ==
    /\ ppc = "select"
    /\ LET mmr == MmrSelect(p_reranked, top_k, MMR_LAMBDA)
       IN IF mmr = <<>>
          THEN Raise("select") /\ UNCHANGED ctx_rows
          ELSE /\ ctx_rows' = [i \in DOMAIN mmr |-> ContextRow(mmr[i])]
               /\ events' = Yield("selection")
               /\ UNCHANGED raised_in
               /\ IF entry = "hybrid_search"
                  THEN ppc' = "done" /\ outcome' = "returned"
                  ELSE ppc' = "answer" /\ UNCHANGED outcome
    /\ UNCHANGED <<pipeConfig, qry, expanded, dense_lists, lex_lists, kw_lists, boost,
                   fuse_in, p_fused, p_reranked, failed, invoked>>
    /\ UNCHANGED pipeOthers

\* mmr = _mmr_select(reranked, k=top_k, lambda_weight=0.7) and the rows built from
\* it; hybrid_search returns them, the endpoints go on to the answer.
PipeSelect ==
    /\ ppc = "select"
    /\ LET mmr == MmrSelect(p_reranked, top_k, MMR_LAMBDA)
       IN ctx_rows' = [i \in DOMAIN mmr |-> ContextRow(mmr[i])]
    /\ events' = Yield("selection")
    /\ IF entry = "hybrid_search"
       THEN ppc' = "done" /\ outcome' = "returned"
       ELSE ppc' = "answer" /\ UNCHANGED outcome
    /\ UNCHANGED <<pipeConfig, qry, expanded, dense_lists, lex_lists, kw_lists, boost,
                   fuse_in, p_fused, p_reranked, raised_in, failed, invoked>>
    /\ UNCHANGED pipeOthers

\* generate_answer_robust and the response: the answer with its context_ids, or the
\* error path when answer generation raises.
PipeAnswer ==
    /\ ppc = "answer"
    /\ \E ok \in BOOLEAN :
          IF ok
          THEN /\ outcome' = "answered"
               /\ ppc' = "done"
               /\ events' = YieldFinal([i \in DOMAIN ctx_rows |-> ctx_rows[i].id], FALSE)
               /\ UNCHANGED raised_in
          ELSE Raise("answer")
    /\ UNCHANGED <<pipeConfig, qry, expanded, dense_lists, lex_lists, kw_lists, boost,
                   fuse_in, p_fused, p_reranked, ctx_rows, failed, invoked>>
    /\ UNCHANGED pipeOthers

(***************************************************************************)
(* _rerank_llm called on its own                                           *)
(***************************************************************************)
\* Candidates handed to the reranker: fused candidates with distinct keys.
RerankPool ==
    { WithRrf(Cand(SrcIndex, <<"1">>, TxtQuickFox, 90), 2 * RrfTerm(RRF_K, 1)),
      WithRrf(Cand(SrcIndex, <<"2">>, TxtRedFox, 75), RrfTerm(RRF_K, 1)),
      WithRrf(Cand(SrcEmb, <<"1">>, TxtGasable, 65), RrfTerm(RRF_K, 2)) }

\* Entries a parsed response array is made of: valid scores for the first two
\* candidates, a second score for the first, an index past any list of the model,
\* and an entry that is not an object.
RerankEntryPool ==
    { RerankEntry(0, 3), RerankEntry(1, 9), RerankEntry(0, 5), RerankEntry(7, 9),
      [is_object |-> FALSE, index |-> 0, score |-> 0] }

\* What the provider may do: raise (or answer '[' followed by invalid JSON, which
\* raises in json.loads), answer text that does not start with '[', or answer an
\* array of at most MaxEntries entries.
RerankWorlds ==
    { [kind |-> "raise", arr |-> <<>>], [kind |-> "not_array", arr |-> <<>>] }
    \cup { [kind |-> "array", arr |-> a] : a \in SeqsUpTo(RerankEntryPool, MaxEntries) }

\* top values tried: 1 and the 12 that hybrid_search passes at least.
RerankTops == {1, RERANK_MIN_TOP}

RerankIdle ==
    /\ rr_candidates = <<>> /\ rr_top = 0 /\ rr_key = FALSE
    /\ rr_resp = [kind |-> "raise", arr |-> <<>>] /\ rr_out = <<>> /\ rpc = "off"

RerankInit ==
    /\ rr_candidates \in SeqsUpTo(RerankPool, MaxCands)
    /\ rr_top \in RerankTops
    /\ rr_key \in BOOLEAN
    /\ rr_resp \in RerankWorlds
    /\ rr_out = <<>>
    /\ rpc = "call"

\* rr_out = _rerank_llm(query, rr_candidates, rr_top)
Rerank ==
    /\ rpc = "call"
    /\ rr_out' = RerankLlm(rr_candidates, rr_top, rr_key, rr_resp)
    /\ rpc' = "done"
    /\ UNCHANGED <<rr_candidates, rr_top, rr_key, rr_resp>>
    /\ UNCHANGED rerankOthers

(***************************************************************************)
(* Concurrent callers of _bm25_search: each thread runs _get_bm25_state and *)
(* _build_bm25_index statement by statement.  BM25_STATE holds a reference: *)
(* 0 for None, else the position in c_heap of the dict it points to.  The   *)
(* lists a build fills are locals of the building thread until line 479.    *)
(***************************************************************************)
Threads == {"t1", "t2"}

\* RAG_BM25_TTL_SEC in the concurrent specification.
ConcTtl == 1

\* A plausible slip: the dict is assigned to BM25_STATE inside the loop, after the
\* first document.
SwapReadyEarly(i, n) == i > 1 \/ i > n

\* The for loop is over: every document of the corpus has been visited.
SwapReady(i, n) == i > n

ConcIdle ==
    /\ c_state = 0 /\ c_heap = <<>> /\ c_from = <<>> /\ c_db = TablesEmpty /\ c_clock = 0
    /\ c_pc = <<>> /\ c_local = <<>> /\ c_calls = <<>>

NoLocals ==
    [ref |-> 0, corpus |-> <<>>, i |-> 0, rows |-> <<>>, tokens |-> <<>>,
     bm25 |-> "unread", seen_rows |-> <<>>]

ConcInit ==
    /\ c_state = 0 /\ c_heap = <<>> /\ c_from = <<>>
    /\ c_db \in {TablesA, TablesB}
    /\ c_clock = 0
    /\ c_pc = [t \in Threads |-> "idle"]
    /\ c_local = [t \in Threads |-> NoLocals]
    /\ c_calls = [t \in Threads |-> 0]

\* Time passes.
ConcTick ==
    /\ c_pc # <<>>
    /\ c_clock < MaxClock
    /\ c_clock' = c_clock + 1
    /\ UNCHANGED <<c_state, c_heap, c_from, c_db, c_pc, c_local, c_calls>>
    /\ UNCHANGED concOthers

\* Ingestion changes the tables, from the older example tables to the newer.
ConcTablesChange ==
    /\ c_pc # <<>>
    /\ c_db = TablesA
    /\ c_db' = TablesB
    /\ UNCHANGED <<c_state, c_heap, c_from, c_clock, c_pc, c_local, c_calls>>
    /\ UNCHANGED concOthers

\* A thread enters _bm25_search: state = _get_bm25_state().
ConcCall(t) ==
    /\ c_pc[t] = "idle"
    /\ c_calls[t] < MaxConcCalls
    /\ c_calls' = [c_calls EXCEPT ![t] = @ + 1]
    /\ c_pc' = [c_pc EXCEPT ![t] = "test"]
    /\ c_local' = [c_local EXCEPT ![t] = NoLocals]
    /\ UNCHANGED <<c_state, c_heap, c_from, c_db, c_clock>>
    /\ UNCHANGED concOthers

\* Lines 493-497: BM25_STATE is None, or its built_at is older than the ttl, and
\* else `return BM25_STATE`.
ConcTest(t) ==
    /\ c_pc[t] = "test"
    /\ IF c_state = 0 \/ c_clock - c_heap[c_state].built_at > ConcTtl
       THEN /\ c_pc' = [c_pc EXCEPT ![t] = "load"]
            /\ UNCHANGED c_local
       ELSE /\ c_pc' = [c_pc EXCEPT ![t] = "read_bm25"]
            /\ c_local' = [c_local EXCEPT ![t].ref = c_state]
    /\ UNCHANGED <<c_state, c_heap, c_from, c_db, c_clock, c_calls>>
    /\ UNCHANGED concOthers

\* Lines 467-470: corpus = _load_corpus(...), rows = [], tokens = []; a database
\* error ends the call with an exception.
ConcLoad(t) ==
    /\ c_pc[t] = "load"
    /\ \E ok \in BOOLEAN :
          IF ok
          THEN /\ c_local' = [c_local EXCEPT ![t].corpus = LoadCorpus(c_db, CorpusLimit),
                                            ![t].i = 1, ![t].rows = <<>>, ![t].tokens = <<>>]
               /\ c_pc' = [c_pc EXCEPT ![t] = "loop"]
          ELSE /\ c_pc' = [c_pc EXCEPT ![t] = "idle"]
               /\ UNCHANGED c_local
    /\ UNCHANGED <<c_state, c_heap, c_from, c_db, c_clock, c_calls>>
    /\ UNCHANGED concOthers

\* One iteration of the for loop of lines 471-477.
ConcLoop(t) ==
    /\ c_pc[t] = "loop"
    /\ ~SwapReady(c_local[t].i, Len(c_local[t].corpus))
    /\ LET doc == c_local[t].corpus[c_local[t].i]
           norm == NormalizeText(doc.text)
           ts == SplitWords(norm, 1)
       IN c_local' = [c_local EXCEPT
              ![t].i = @ + 1,
              ![t].rows = IF ts = <<>> THEN @
                          ELSE Append(@, [doc_id |-> doc.doc_id, text |-> norm]),
              ![t].tokens = IF ts = <<>> THEN @ ELSE Append(@, ts)]
    /\ UNCHANGED <<c_state, c_heap, c_from, c_db, c_clock, c_pc, c_calls>>
    /\ UNCHANGED concOthers

\* Lines 478-485: bm25 = BM25Okapi(tokens) if tokens else None, then the new dict
\* is made and BM25_STATE is pointed at it.
ConcSwap(t) ==
    /\ c_pc[t] = "loop"
    /\ SwapReady(c_local[t].i, Len(c_local[t].corpus))
    /\ c_heap' = Append(c_heap, [built_at |-> c_clock,
                                 rows |-> c_local[t].rows,
                                 tokens |-> c_local[t].tokens,
                                 has_bm25 |-> c_local[t].tokens # <<>>,
                                 doc_count |-> Len(c_local[t].rows)])
    /\ c_from' = Append(c_from, c_local[t].corpus)
    /\ c_state' = Len(c_heap) + 1
    /\ c_pc' = [c_pc EXCEPT ![t] = "return"]
    /\ UNCHANGED <<c_db, c_clock, c_local, c_calls>>
    /\ UNCHANGED concOthers

\* Line 486: return BM25_STATE, the global as it is now.
ConcReturn(t) ==
    /\ c_pc[t] = "return"
    /\ c_local' = [c_local EXCEPT ![t].ref = c_state]
    /\ c_pc' = [c_pc EXCEPT ![t] = "read_bm25"]
    /\ UNCHANGED <<c_state, c_heap, c_from, c_db, c_clock, c_calls>>
    /\ UNCHANGED concOthers

\* Line 502: bm25 = state.get("bm25")
ConcReadBm25(t) ==
    /\ c_pc[t] = "read_bm25"
    /\ c_local' = [c_local EXCEPT
          ![t].bm25 = IF c_heap[c_local[t].ref].has_bm25 THEN "index" ELSE "none"]
    /\ c_pc' = [c_pc EXCEPT ![t] = "read_rows"]
    /\ UNCHANGED <<c_state, c_heap, c_from, c_db, c_clock, c_calls>>
    /\ UNCHANGED concOthers

\* Line 503: rows = state.get("rows", []); the search then ends.
ConcReadRows(t) ==
    /\ c_pc[t] = "read_rows"
    /\ c_local' = [c_local EXCEPT ![t].seen_rows = c_heap[c_local[t].ref].rows]
    /\ c_pc' = [c_pc EXCEPT ![t] = "idle"]
    /\ UNCHANGED <<c_state, c_heap, c_from, c_db, c_clock, c_calls>>
    /\ UNCHANGED concOthers

(***************************************************************************)
(* _load_corpus with sources that may be unreachable                        *)
(***************************************************************************)
Sources == {"gasable_index", "documents", "embeddings"}

\* limit_per_table values tried.
LoadLimits == {1, 2, 3}

\* _load_corpus(limit) when the queries on the tables in `down` fail: the three
\* cur.execute calls of lines 440-459 stand in one with-block with no try around
\* any of them, so the first failing one raises out of the function and the items
\* gathered before it are lost with the local list.
LoadCorpusOrRaise(tables, limit, down) ==
    IF down = {}
    THEN [kind |-> "items", items |-> LoadCorpus(tables, limit)]
    ELSE [kind |-> "raised", items |-> <<>>]

LoadIdle ==
    /\ lc_db = TablesEmpty /\ lc_down = {} /\ lc_limit = 0
    /\ lc_out = [kind |-> "none", items |-> <<>>] /\ lpc = "off"

LoadInit ==
    /\ lc_db \in TableChoices
    /\ lc_down \in SUBSET Sources
    /\ lc_limit \in LoadLimits
    /\ lc_out = [kind |-> "none", items |-> <<>>]
    /\ lpc = "call"

\* One call of _load_corpus(lc_limit).
LoadCorpusCall ==
    /\ lpc = "call"
    /\ lc_out' = LoadCorpusOrRaise(lc_db, lc_limit, lc_down)
    /\ lpc' = "done"
    /\ UNCHANGED <<lc_db, lc_down, lc_limit>>
    /\ UNCHANGED loadOthers

(***************************************************************************)
(* _generate_query_expansions                                              *)
(* A parsed JSON value is a record: t is its type, s the characters of a    *)
(* string, n a number, items the elements of a list and vals the values of  *)
(* an object in key order.                                                  *)
(***************************************************************************)
JStr(s) == [t |-> "str", s |-> s, n |-> 0, items |-> <<>>, vals |-> <<>>]
JNum(n) == [t |-> "num", s |-> <<>>, n |-> n, items |-> <<>>, vals |-> <<>>]
JNull == [t |-> "null", s |-> <<>>, n |-> 0, items |-> <<>>, vals |-> <<>>]
JList(items) == [t |-> "list", s |-> <<>>, n |-> 0, items |-> items, vals |-> <<>>]
JObj(vals) == [t |-> "obj", s |-> <<>>, n |-> 0, items |-> <<>>, vals |-> vals]

\* str(n) for a non-negative int.
DigitChars == <<"0","1","2","3","4","5","6","7","8","9">>
RECURSIVE Decimal(_)
Decimal(n) ==
    IF n < Len(DigitChars) THEN <<DigitChars[n + 1]>>
    ELSE Decimal(n \div Len(DigitChars)) \o <<DigitChars[(n % Len(DigitChars)) + 1]>>

\* Line 862: [str(x) for x in arr if isinstance(x, (str, int, float))]
RECURSIVE StrItems(_)
StrItems(arr) ==
    IF arr = <<>> THEN <<>>
    ELSE (IF Head(arr).t = "str" THEN <<Head(arr).s>>
          ELSE IF Head(arr).t = "num" THEN <<Decimal(Head(arr).n)>>
          ELSE <<>>) \o StrItems(Tail(arr))

\* Lines 863-864: the items that are not blank and, stripped, are not q.
RECURSIVE KeptItems(_, _)
KeptItems(items, q) ==
    IF items = <<>> THEN <<>>
    ELSE (IF Strip(Head(items)) # <<>> /\ Strip(Head(items)) # q THEN <<Head(items)>> ELSE <<>>)
         \o KeptItems(Tail(items), q)

\* Lines 857-860: for an object, the first value that is a list, else the object.
RECURSIVE FirstListValue(_, _)
FirstListValue(vals, whole) ==
    IF vals = <<>> THEN whole
    ELSE IF Head(vals).t = "list" THEN Head(vals) ELSE FirstListValue(Tail(vals), whole)

\* The [:4] of line 864.
EXPANSION_CAP == 4

\* A plausible slip: the slice is arr[:max_exp].
ExpansionFallbackShort(q, max_exp) == Take(<<q>>, max_exp)

\* Lines 869-875: arr = [q]; return arr[: 1 + max_exp]
ExpansionFallback(q, max_exp) == Take(<<q>>, 1 + max_exp)

\* A plausible slip: the kept items are returned without the query in front.
ExpansionsWithoutQuery(q, world, max_exp) ==
    IF world.kind = "no_key" THEN <<q>>
    ELSE IF world.kind \in {"raise", "not_json"} THEN ExpansionFallback(q, max_exp)
    ELSE LET arr == IF world.value.t = "obj"
                    THEN FirstListValue(world.value.vals, world.value)
                    ELSE world.value
         IN IF arr.t = "list"
            THEN Take(KeptItems(StrItems(arr.items), q), EXPANSION_CAP)
            ELSE ExpansionFallback(q, max_exp)

\* _generate_query_expansions(q, lang) in a world: no OPENAI_API_KEY, the provider
\* call raises, the content is not JSON, or the content parses to world.value.
GenerateQueryExpansions(q, world, max_exp) ==
    IF world.kind = "no_key" THEN <<q>>
    ELSE IF world.kind \in {"raise", "not_json"} THEN ExpansionFallback(q, max_exp)
    ELSE LET arr == IF world.value.t = "obj"
                    THEN FirstListValue(world.value.vals, world.value)
                    ELSE world.value
         IN IF arr.t = "list"
            THEN <<q>> \o Take(KeptItems(StrItems(arr.items), q), EXPANSION_CAP)
            ELSE ExpansionFallback(q, max_exp)

\* The queries tried: plain, empty, and one with spaces around it.
QPadded == <<" ", "f", "o", "x", " ">>
ExpQueries == {QRedFox, QEmpty, QPadded}

\* Elements a response array may hold, for the query q: another query, q itself,
\* q with spaces around it, a blank string, a number and null.
ExpItemPool(q) ==
    {JStr(AltQuery), JStr(q), JStr(<<" ">> \o q \o <<" ">>), JStr(QBlank), JNum(12), JNull}

\* What the provider does.
ExpWorld(kind, value) == [kind |-> kind, value |-> value]
ExpWorlds(q) ==
    {ExpWorld("no_key", JNull), ExpWorld("raise", JNull), ExpWorld("not_json", JNull)}
      \cup {ExpWorld("json", v) : v \in {JNull, JNum(12), JStr(AltQuery), JObj(<<>>),
                                         JObj(<<JStr(AltQuery), JNum(12)>>)}}
      \cup {ExpWorld("json", JList(l)) : l \in SeqsUpTo(ExpItemPool(q), MaxItems)}
      \cup {ExpWorld("json", JObj(<<JStr(AltQuery), JList(l), JList(<<JStr(QBlank)>>)>>)) :
                l \in SeqsUpTo(ExpItemPool(q), 1)}

\* RAG_EXPANSIONS, a count of expansions: 0 or the default 2.
ExpansionLimits == {0, 2}

ExpandIdle ==
    /\ ex_q = <<>> /\ ex_world = ExpWorld("none", JNull) /\ ex_max = 0 /\ ex_out = <<>>
    /\ xpc = "off"

ExpandInit ==
    /\ ex_q \in ExpQueries
    /\ ex_world \in ExpWorlds(ex_q)
    /\ ex_max \in ExpansionLimits
    /\ ex_out = <<>>
    /\ xpc = "call"

\* One call of _generate_query_expansions(ex_q, lang).
Expand ==
    /\ xpc = "call"
    /\ ex_out' = GenerateQueryExpansions(ex_q, ex_world, ex_max)
    /\ xpc' = "done"
    /\ UNCHANGED <<ex_q, ex_world, ex_max>>
    /\ UNCHANGED expandOthers

(***************************************************************************)
(* Fusion of two ranked lists, with and without the raw scores of one of    *)
(* them multiplied by a positive constant.  A list in sc_dense is a dense    *)
(* result: hybrid_search sorts it by score and cuts it before fusion.        *)
(***************************************************************************)
\* Candidates of the rescaling specification: four keys, two of them with the same
\* raw score.
ScalePool ==
    { Cand(SrcIndex, <<"1">>, TxtQuickFox, 90),
      Cand(SrcIndex, <<"2">>, TxtRedFox, 50),
      Cand(SrcEmb, <<"1">>, TxtGasable, 65),
      Cand(SrcEmb, <<"2">>, TxtQuickFox, 90) }

ScaleFactors == {2, 3}

\* RAG_K_DENSE_FUSE values tried: one that cuts the list and the default.
DenseFuseChoices == {1, K_DENSE_FUSE}

\* The list with every raw score multiplied by c.
ScaleScores(list, c) ==
    [i \in DOMAIN list |-> [list[i] EXCEPT !.score = @ * c]] \o <<>>

\* Lines 890-891 on the lists that are dense results, then _rrf_fuse (line 908).
FuseAfterDense(lists, dense, k_fuse) ==
    RrfFuse([i \in DOMAIN lists |->
                IF i \in dense THEN DenseListTo(lists[i], k_fuse) ELSE lists[i]] \o <<>>,
            RRF_K)

ScaleIdle ==
    /\ sc_lists = <<>> /\ sc_which = 0 /\ sc_factor = 0 /\ sc_dense = {} /\ sc_kfuse = 0
    /\ sc_plain = <<>> /\ sc_scaled = <<>> /\ scpc = "off"

ScaleInit ==
    /\ sc_lists \in SeqsUpTo(ScalePool, MaxLen) \X SeqsUpTo(ScalePool, MaxLen)
    /\ sc_which \in DOMAIN sc_lists
    /\ sc_factor \in ScaleFactors
    /\ sc_dense \in {{}, {1}, DOMAIN sc_lists}
    /\ sc_kfuse \in DenseFuseChoices
    /\ sc_dense = {} => sc_kfuse = K_DENSE_FUSE
    /\ sc_plain = <<>> /\ sc_scaled = <<>>
    /\ scpc = "call"

\* The two runs: on the lists as they are, and with list sc_which rescaled.
FuseBoth ==
    /\ scpc = "call"
    /\ sc_plain' = FuseAfterDense(sc_lists, sc_dense, sc_kfuse)
    /\ sc_scaled' = FuseAfterDense(
                       [sc_lists EXCEPT ![sc_which] = ScaleScores(@, sc_factor)],
                       sc_dense, sc_kfuse)
    /\ scpc' = "done"
    /\ UNCHANGED <<sc_lists, sc_which, sc_factor, sc_dense, sc_kfuse>>
    /\ UNCHANGED scaleOthers

(***************************************************************************)
(* _bm25_search on the index _get_bm25_state returned.  The scores are      *)
(* those of rank_bm25's BM25Okapi.get_scores, a library outside this        *)
(* repository: one number per indexed document, any of ScoreChoices.        *)
(***************************************************************************)
ScoreChoices == {0, 5, 9}

\* k values tried: below, at and above the number of indexed documents.
SearchKs == {1, 2, 10}

\* Queries tried: with tokens, empty, and whitespace only.
SearchQueries == {QRedFox, QEmpty, QBlank}

\* The (doc_id, text, score) tuples built from sorted pairs.
Bm25Hits(pairs) ==
    [i \in DOMAIN pairs |->
        [doc_id |-> pairs[i].v.doc_id, text |-> pairs[i].v.text, score |-> pairs[i].k]] \o <<>>

\* zip(rows, scores)
Bm25Pairs(rows, scores) == [i \in DOMAIN rows |-> [k |-> scores[i], v |-> rows[i]]] \o <<>>

\* A plausible slip: the pairs are cut to k before they are sorted.
Bm25SearchCutFirst(state, query, k, scores) ==
    IF ~state.has_bm25 \/ state.rows = <<>> THEN <<>>
    ELSE IF SplitWords(NormalizeText(query), 1) = <<>> THEN <<>>
    ELSE Bm25Hits(SortDesc(Take(Bm25Pairs(state.rows, scores), k)))

\* _bm25_search(query, k) lines 502-515, state being what _get_bm25_state returned
\* and scores what bm25.get_scores(q_tokens) returned.
Bm25Search(state, query, k, scores) ==
    IF ~state.has_bm25 \/ state.rows = <<>> THEN <<>>
    ELSE IF SplitWords(NormalizeText(query), 1) = <<>> THEN <<>>
    ELSE Take(Bm25Hits(SortDesc(Bm25Pairs(state.rows, scores))), k)

SearchIdle ==
    /\ bs_state = BuiltIndex(<<>>, 0) /\ bs_query = <<>> /\ bs_k = 0
    /\ bs_scores = <<>> /\ bs_out = <<>> /\ spc = "off"

SearchInit ==
    /\ bs_state \in {BuiltIndex(LoadCorpus(t, CorpusLimit), 0) : t \in TableChoices}
    /\ bs_query \in SearchQueries
    /\ bs_k \in SearchKs
    /\ bs_scores \in [DOMAIN bs_state.rows -> ScoreChoices]
    /\ bs_out = <<>>
    /\ spc = "call"

\* One call of _bm25_search(bs_query, bs_k).
Bm25SearchCall ==
    /\ spc = "call"
    /\ bs_out' = Bm25Search(bs_state, bs_query, bs_k, bs_scores)
    /\ spc' = "done"
    /\ UNCHANGED <<bs_state, bs_query, bs_k, bs_scores>>
    /\ UNCHANGED searchOthers

(***************************************************************************)
(* Specifications: one per component.                                      *)
(***************************************************************************)
InitFuse == FuseInit /\ MmrIdle /\ CleanIdle /\ CacheIdle /\ PipeIdle /\ RerankIdle /\ ConcIdle /\ LoadIdle /\ ExpandIdle /\ ScaleIdle /\ SearchIdle
NextFuse == Fuse
SpecFuse == InitFuse /\ [][NextFuse]_vars

InitMmr == MmrInit /\ FuseIdle /\ CleanIdle /\ CacheIdle /\ PipeIdle /\ RerankIdle /\ ConcIdle /\ LoadIdle /\ ExpandIdle /\ ScaleIdle /\ SearchIdle
NextMmr == MmrEnter \/ MmrIter \/ MmrExit
SpecMmr == InitMmr /\ [][NextMmr]_vars

InitClean == CleanInit /\ FuseIdle /\ MmrIdle /\ CacheIdle /\ PipeIdle /\ RerankIdle /\ ConcIdle /\ LoadIdle /\ ExpandIdle /\ ScaleIdle /\ SearchIdle
NextClean == CleanOnce \/ CleanAgain
SpecClean == InitClean /\ [][NextClean]_vars

InitCache == CacheInit /\ FuseIdle /\ MmrIdle /\ CleanIdle /\ PipeIdle /\ RerankIdle /\ ConcIdle /\ LoadIdle /\ ExpandIdle /\ ScaleIdle /\ SearchIdle
NextCache == Tick \/ TablesChange \/ GetBm25State
SpecCache == InitCache /\ [][NextCache]_vars

InitPipe == PipeInit /\ FuseIdle /\ MmrIdle /\ CleanIdle /\ CacheIdle /\ RerankIdle /\ ConcIdle /\ LoadIdle /\ ExpandIdle /\ ScaleIdle /\ SearchIdle
NextPipe ==
    \/ PipeReceive \/ PipeExpand \/ PipeLoadCorpus \/ PipeDense \/ PipeLexical
    \/ PipeKeyword \/ PipeBoost \/ PipeFuse \/ PipeRerank \/ PipeSelect \/ PipeAnswer
SpecPipe == InitPipe /\ [][NextPipe]_vars

InitRerank == RerankInit /\ FuseIdle /\ MmrIdle /\ CleanIdle /\ CacheIdle /\ PipeIdle /\ ConcIdle /\ LoadIdle /\ ExpandIdle /\ ScaleIdle /\ SearchIdle
NextRerank == Rerank
SpecRerank == InitRerank /\ [][NextRerank]_vars

InitConc == ConcInit /\ FuseIdle /\ MmrIdle /\ CleanIdle /\ CacheIdle /\ PipeIdle /\ RerankIdle /\ LoadIdle /\ ExpandIdle /\ ScaleIdle /\ SearchIdle
NextConc == ConcTick \/ ConcTablesChange \/ (\E t \in Threads : ConcCall(t)) \/ (\E t \in Threads : ConcTest(t)) \/ (\E t \in Threads : ConcLoad(t)) \/ (\E t \in Threads : ConcLoop(t)) \/ (\E t \in Threads : ConcSwap(t)) \/ (\E t \in Threads : ConcReturn(t)) \/ (\E t \in Threads : ConcReadBm25(t)) \/ (\E t \in Threads : ConcReadRows(t))
SpecConc == InitConc /\ [][NextConc]_vars

InitLoad == LoadInit /\ FuseIdle /\ MmrIdle /\ CleanIdle /\ CacheIdle /\ PipeIdle /\ RerankIdle /\ ConcIdle /\ ExpandIdle /\ ScaleIdle /\ SearchIdle
NextLoad == LoadCorpusCall
SpecLoad == InitLoad /\ [][NextLoad]_vars

InitExpand == ExpandInit /\ FuseIdle /\ MmrIdle /\ CleanIdle /\ CacheIdle /\ PipeIdle /\ RerankIdle /\ ConcIdle /\ LoadIdle /\ ScaleIdle /\ SearchIdle
NextExpand == Expand
SpecExpand == InitExpand /\ [][NextExpand]_vars

InitScale == ScaleInit /\ FuseIdle /\ MmrIdle /\ CleanIdle /\ CacheIdle /\ PipeIdle /\ RerankIdle /\ ConcIdle /\ LoadIdle /\ ExpandIdle /\ SearchIdle
NextScale == FuseBoth
SpecScale == InitScale /\ [][NextScale]_vars

InitSearch == SearchInit /\ FuseIdle /\ MmrIdle /\ CleanIdle /\ CacheIdle /\ PipeIdle /\ RerankIdle /\ ConcIdle /\ LoadIdle /\ ExpandIdle /\ ScaleIdle
NextSearch == Bm25SearchCall
SpecSearch == InitSearch /\ [][NextSearch]_vars

(***************************************************************************)
(* C1: every distinct key source:id of the input occurs exactly once in    *)
(* the output of _rrf_fuse, and its rrf is the sum of 1/(K + rank) over    *)
(* the lists it appeared in (rank 1-indexed within its list).              *)
(***************************************************************************)
KeysOfLists(lists) == {CandKey(c) : c \in Range(Flatten(lists))}

\* Sum of 1/(K + rank) over the places where `key` stands in the input, computed
\* from the input positions directly.
ExpectedRrf(lists, key) ==
    LET places == {<<i, r>> \in (DOMAIN lists) \X (1..MaxRank) :
                      r \in DOMAIN lists[i] /\ CandKey(lists[i][r]) = key}
        RECURSIVE SumOver(_)
        SumOver(S) == IF S = {} THEN 0
                      ELSE LET p == CHOOSE p \in S : TRUE
                           IN RrfDen \div (RRF_K + p[2]) + SumOver(S \ {p})
    IN SumOver(places)

C1_FusionKeyCorrectness ==
    fpc = "done" =>
        /\ \A key \in KeysOfLists(result_lists) :
              /\ Cardinality({j \in DOMAIN fused : CandKey(fused[j]) = key}) = 1
              /\ \A j \in DOMAIN fused :
                    CandKey(fused[j]) = key => fused[j].rrf = ExpectedRrf(result_lists, key)
        /\ \A j \in DOMAIN fused : CandKey(fused[j]) \in KeysOfLists(result_lists)

\* The spec's scenario: a key at rank 1 in two lists gets 1/61 + 1/61.
C1_Witness ==
    /\ fpc = "done"
    /\ Len(result_lists) = 2
    /\ Len(result_lists[1]) >= 1 /\ Len(result_lists[2]) >= 1
    /\ CandKey(result_lists[1][1]) = CandKey(result_lists[2][1])
    /\ \E j \in DOMAIN fused :
          /\ CandKey(fused[j]) = CandKey(result_lists[1][1])
          /\ fused[j].rrf = RrfDen \div 61 + RrfDen \div 61

(***************************************************************************)
(* C2: _mmr_select returns exactly min(k, len(candidates)) items, for      *)
(* every candidate list, every k >= 0 and every lambda in [0,1].           *)
(***************************************************************************)
Min(a, b) == IF a <= b THEN a ELSE b

C2_MmrLength ==
    mpc = "done" => Len(mmr_out) = Min(mmr_k, Len(candidates))

\* Both sides of the min are exercised: a list longer than k is cut to k.
C2_Witness ==
    /\ mpc = "done"
    /\ mmr_k >= 1
    /\ Len(candidates) > mmr_k
    /\ Len(mmr_out) = mmr_k

(***************************************************************************)
(* C3: at every step of the greedy loop selected and remaining are         *)
(* disjoint and together hold exactly the input candidates, each input     *)
(* position once; every returned item is the input candidate at the        *)
(* position it was picked from.                                            *)
(***************************************************************************)
NoRepeats(s) == \A i, j \in DOMAIN s : i # j => s[i] # s[j]

C3_MmrPartition ==
    /\ mpc \in {"loop", "done"} /\ candidates # <<>> =>
          /\ NoRepeats(selected \o remaining)
          /\ Range(selected \o remaining) = DOMAIN candidates
    /\ mpc = "done" =>
          /\ Len(mmr_out) = Len(selected)
          /\ \A i \in DOMAIN mmr_out :
                /\ selected[i] \in DOMAIN candidates
                /\ mmr_out[i] = candidates[selected[i]]

\* Two picks have been made and a candidate is still left over.
C3_Witness ==
    /\ mpc = "loop"
    /\ Len(selected) = 2
    /\ Len(remaining) = 1

(***************************************************************************)
(* C4: the output of the diversity selector never holds two items with the *)
(* same (source, id), also when its input holds the same (source, id)      *)
(* more than once.                                                         *)
(***************************************************************************)
C4_MmrNoDuplicateKeys ==
    mpc = "done" =>
        \A i, j \in DOMAIN mmr_out :
            i # j => <<mmr_out[i].source, mmr_out[i].id>> # <<mmr_out[j].source, mmr_out[j].id>>

(***************************************************************************)
(* C5: clean_text is idempotent: clean_text(clean_text(t)) = clean_text(t) *)
(* for every input t.                                                      *)
(***************************************************************************)
C5_CleanIdempotent ==
    cpc = "twice" => recleaned = cleaned

(***************************************************************************)
(* C6: a lexical query loads the corpus and builds the index only if the   *)
(* index was never built or its age (now - built_at) exceeds the TTL; a    *)
(* query within the TTL window reuses the built index with no corpus load; *)
(* a query after expiry triggers exactly one rebuild.                      *)
(***************************************************************************)
C6_CachePolicy ==
    [][ bm_calls' = bm_calls + 1 =>
          LET never == BM25_STATE = <<>>
              expired == BM25_STATE # <<>> /\ clock - BM25_STATE[1].built_at > bm_ttl
          IN IF never \/ expired
             THEN /\ bm_loads' = bm_loads + 1
                  /\ bm_builds' \in {bm_builds, bm_builds + 1}
                  /\ bm_builds' = bm_builds + 1 =>
                        /\ BM25_STATE' # <<>>
                        /\ BM25_STATE'[1].built_at = clock'
                  /\ bm_builds' = bm_builds => BM25_STATE' = BM25_STATE
             ELSE /\ bm_loads' = bm_loads
                  /\ bm_builds' = bm_builds
                  /\ BM25_STATE' = BM25_STATE
      ]_vars

\* A first build, a query inside the TTL window that reused it, and a query after
\* expiry that rebuilt it: three calls, two loads, two builds.
C6_Witness ==
    /\ bm_calls = 3
    /\ bm_loads = 2
    /\ bm_builds = 2
    /\ bm_last = "built"
    /\ BM25_STATE # <<>>
    /\ BM25_STATE[1].built_at > bm_ttl

(***************************************************************************)
(* C7: at every entry point a query that is empty or whitespace-only is    *)
(* answered with the EmptyQuery input error, and no sub-signal (expansion, *)
(* embedding, dense, lexical, keyword prefilter, brand boost) is invoked.  *)
(***************************************************************************)
C7_EmptyQueryRejected ==
    Strip(q_in) = <<>> =>
        /\ invoked = {}
        /\ ppc = "done" => outcome = "empty_query"

\* hybrid_search itself or api_query, which calls it.
HybridEntries == {"hybrid_search", "api_query"}

\* _rrf_fuse has returned in this call.
FusedDone ==
    \/ ppc \in {"rerank", "select", "answer"}
    \/ ppc = "done" /\ (outcome \in {"returned", "answered"} \/ raised_in = "answer")

TxtBrand == <<"G","a","s","a","b","l","e">>

\* The corpus, table by table.
CorpusTables ==
    { <<SrcIndex, p_db.gasable_index>>, <<SrcDocs, p_db.documents>>,
      <<SrcEmb, p_db.embeddings>> }

\* The table row (src, id) is in the fused list, under the key its table gives it
\* or, for a gasable_index row found by the lexical search, under its node id.
InFused(src, id) ==
    \E i \in DOMAIN p_fused :
        \/ p_fused[i].source = src /\ p_fused[i].id = id
        \/ src = SrcIndex /\ CandKey(p_fused[i]) = id

(***************************************************************************)
(* C8 as stated: for a query containing "Gasable", every corpus entry      *)
(* whose text contains "Gasable" is in the fused candidate set of          *)
(* hybrid_search.                                                          *)
(***************************************************************************)
C8_GasableEntryFused ==
    (entry \in HybridEntries /\ FusedDone /\ Contains(qry, TxtBrand)) =>
        \A t \in CorpusTables : \A i \in DOMAIN t[2] :
            Contains(t[2][i].text, TxtBrand) => InFused(t[1], t[2][i].id)

(***************************************************************************)
(* C8, amended: for a query from which the prefilter takes the keyword     *)
(* "gasable", every corpus entry whose text contains "Gasable" is in the   *)
(* fused candidate set of hybrid_search, provided the rows of the entry's  *)
(* table that match any keyword of the query number at most the prefilter  *)
(* limit.                                                                  *)
(***************************************************************************)
C8_GasableEntryFusedWithinLimit ==
    (entry \in HybridEntries /\ FusedDone /\ KwGasable \in QueryKeywords(qry)) =>
        \A t \in CorpusTables :
            Len(MatchingRows(t[2], QueryKeywords(qry))) <= kw_limit =>
                \A i \in DOMAIN t[2] :
                    Contains(t[2][i].text, TxtBrand) => InFused(t[1], t[2][i].id)

\* A brand row of the crawled database reaches the fused list through the
\* prefilter alone: no dense list, no lexical hit, and a brand boost that was
\* consulted and does not hold the row.
C8_Witness ==
    /\ entry = "hybrid_search" /\ FusedDone /\ failed = {}
    /\ qry = QWhatIsGasable /\ p_db = TablesCrawled /\ kw_limit = 25
    /\ dense_lists = <<>>
    /\ \A i \in DOMAIN lex_lists : lex_lists[i] = <<>>
    /\ boost # <<>> /\ \A i \in DOMAIN boost : boost[i].id # IdFaq
    /\ InFused(SrcIndex, IdFaq) /\ InFused(SrcIndex, IdSite)

(***************************************************************************)
(* C9: in hybrid_search, when the dense path raised or returned nothing    *)
(* and no other sub-signal failed, the call returns normally and every     *)
(* candidate of the lexical and keyword lists is in the fused list.        *)
(***************************************************************************)
C9_DenseFailureTolerated ==
    ( /\ entry = "hybrid_search"
      /\ ppc \notin {"start", "expand", "corpus", "dense"}
      /\ \A i \in DOMAIN dense_lists : dense_lists[i] = <<>>
      /\ failed \subseteq {"dense"} ) =>
        /\ ppc = "done" => outcome = "returned"
        /\ FusedDone =>
              LET contributed == lex_lists \o NonEmptyLists(kw_lists)
              IN \A i \in DOMAIN contributed : \A j \in DOMAIN contributed[i] :
                    \E f \in DOMAIN p_fused :
                        CandKey(p_fused[f]) = CandKey(contributed[i][j])

(***************************************************************************)
(* C10: hybrid_search never raises because exactly one of the dense,       *)
(* lexical, keyword-prefilter and corpus-load steps failed: the call still *)
(* returns a (possibly empty) result.                                      *)
(***************************************************************************)
C10_SingleFailureTolerated ==
    ( /\ entry = "hybrid_search"
      /\ ppc = "done"
      /\ \E step \in {"dense", "lexical", "keyword", "corpus"} : failed = {step} ) =>
        outcome = "returned"

\* Reranking failed: no key, nothing to rank, an exception, or a response text
\* that is not an array.
RerankFailed ==
    \/ ~rr_key
    \/ rr_candidates = <<>>
    \/ rr_resp.kind \in {"raise", "not_array"}

(***************************************************************************)
(* C11: whenever reranking fails (no API key, no candidates, a provider    *)
(* exception, a response that is not the expected array) _rerank_llm       *)
(* returns the first `top` candidates in their given order.                *)
(***************************************************************************)
C11_RerankFallback ==
    (rpc = "done" /\ RerankFailed) => rr_out = Take(rr_candidates, rr_top)

\* The response scores every candidate exactly once, with well-formed entries.
FullyScored ==
    /\ rr_resp.kind = "array"
    /\ Len(rr_resp.arr) = Len(rr_candidates)
    /\ \A i \in DOMAIN rr_resp.arr : rr_resp.arr[i].is_object
    /\ {rr_resp.arr[i].index : i \in DOMAIN rr_resp.arr} = 0..(Len(rr_candidates) - 1)

(***************************************************************************)
(* C12: _rerank_llm is all-or-nothing: its result is the pre-rerank order  *)
(* untouched unless the response scored every candidate; a response that   *)
(* scores only some indices never drops or moves the unscored candidates.  *)
(***************************************************************************)
C12_RerankAllOrNothing ==
    (rpc = "done" /\ rr_key /\ rr_candidates # <<>> /\ rr_resp.kind = "array") =>
        (rr_out = Take(rr_candidates, rr_top) \/ FullyScored)

\* The places (list, rank) of result_lists, and scan order on them.
FusePlaces == {pl \in (DOMAIN result_lists) \X (1..MaxRank) : pl[2] <= Len(result_lists[pl[1]])}
ScannedBefore(a, b) == a[1] < b[1] \/ (a[1] = b[1] /\ a[2] < b[2])
PlaceKey(pl) == CandKey(result_lists[pl[1]][pl[2]])
\* The first place at which the nested loops meet `key`.
FirstPlace(key) ==
    CHOOSE pl \in FusePlaces :
        /\ PlaceKey(pl) = key
        /\ \A o \in FusePlaces : PlaceKey(o) = key => (o = pl \/ ScannedBefore(pl, o))

(***************************************************************************)
(* C13: for a key found in several input lists, the fused candidate keeps  *)
(* the source, id and text (the whole record but rrf) of the first         *)
(* occurrence of the key in input order; later ones only add to rrf.       *)
(***************************************************************************)
C13_FirstSeenMetadata ==
    fpc = "done" =>
        \A j \in DOMAIN fused :
            LET pl == FirstPlace(CandKey(fused[j]))
                first == result_lists[pl[1]][pl[2]]
            IN /\ fused[j].source = first.source /\ fused[j].id = first.id
               /\ fused[j].text = first.text /\ fused[j].score = first.score

\* One key at the head of two lists, with different texts: the first list's text
\* is kept and the rrf is the sum of both.
C13_Witness ==
    /\ fpc = "done"
    /\ Len(result_lists) = 2
    /\ Len(result_lists[1]) >= 1 /\ Len(result_lists[2]) >= 1
    /\ CandKey(result_lists[1][1]) = CandKey(result_lists[2][1])
    /\ result_lists[1][1].text # result_lists[2][1].text
    /\ \E j \in DOMAIN fused :
          /\ fused[j].text = result_lists[1][1].text
          /\ fused[j].rrf = 2 * RrfTerm(RRF_K, 1)

(***************************************************************************)
(* C14: the fused list is sorted by non-increasing rrf, and keys with      *)
(* equal rrf come in the order in which the scan of the input lists first  *)
(* met them.                                                               *)
(***************************************************************************)
C14_FusedOrder ==
    fpc = "done" =>
        \A i, j \in DOMAIN fused :
            i < j =>
                /\ fused[i].rrf >= fused[j].rrf
                /\ fused[i].rrf = fused[j].rrf =>
                      ScannedBefore(FirstPlace(CandKey(fused[i])),
                                    FirstPlace(CandKey(fused[j])))

\* Two keys, each at rank 1 of one list: equal rrf, first-seen key first.
C14_Witness ==
    /\ fpc = "done"
    /\ Len(result_lists) = 2
    /\ Len(result_lists[1]) = 1 /\ Len(result_lists[2]) = 1
    /\ CandKey(result_lists[1][1]) # CandKey(result_lists[2][1])
    /\ Len(fused) = 2
    /\ fused[1].rrf = fused[2].rrf
    /\ CandKey(fused[1]) = CandKey(result_lists[1][1])

(***************************************************************************)
(* C15: when candidates with the same key are merged by _rrf_fuse, the     *)
(* surviving candidate's score field is the highest score among the merged *)
(* candidates.                                                             *)
(***************************************************************************)
C15_MergedKeepsHighestScore ==
    fpc = "done" =>
        \A j \in DOMAIN fused : \A pl \in FusePlaces :
            PlaceKey(pl) = CandKey(fused[j]) =>
                fused[j].score >= result_lists[pl[1]][pl[2]].score

(***************************************************************************)
(* C16: no item of the context list built by the pipeline (hybrid_search,  *)
(* api_query_stream) has a text that is empty or whitespace-only after     *)
(* normalization.                                                          *)
(***************************************************************************)
C16_NoEmptyTextInContext ==
    \A i \in DOMAIN ctx_rows : NormalizeText(ctx_rows[i].text) # <<>>

\* The references a caller can reach: the global, and the state each thread was handed.
HeldRefs == {c_state} \cup {c_local[t].ref : t \in DOMAIN c_local}

\* C17: under any interleaving of concurrent _bm25_search calls and rebuilds, BM25_STATE
\* and every state a reader was handed is None or a dict whose rows, tokens, bm25 and
\* doc_count are those of one whole build of the corpus that build loaded; what a reader
\* read from it agrees with that dict; and a dict once made is never changed, the global
\* only being pointed at a new one.
C17_AtomicIndexSwap ==
    /\ [](/\ \A r \in HeldRefs \ {0} :
                r \in DOMAIN c_heap /\ c_heap[r] = BuiltIndex(c_from[r], c_heap[r].built_at)
          /\ \A t \in DOMAIN c_local :
                /\ c_local[t].bm25 # "unread" =>
                      (c_local[t].bm25 = "index") = c_heap[c_local[t].ref].has_bm25
                /\ (c_pc[t] = "idle" /\ c_local[t].bm25 # "unread") =>
                      /\ c_local[t].seen_rows = c_heap[c_local[t].ref].rows
                      /\ (c_local[t].bm25 = "index") = (c_local[t].seen_rows # <<>>))
    /\ [][/\ \A r \in DOMAIN c_heap : r \in DOMAIN c_heap' /\ c_heap'[r] = c_heap[r]
          /\ c_state' # c_state => c_state' = Len(c_heap') /\ Len(c_heap') = Len(c_heap) + 1]_vars

\* A reader is between its two reads of an index of two documents while another thread
\* has already pointed BM25_STATE at a newer index with different rows.
C17_Witness ==
    \E t \in DOMAIN c_pc :
        /\ c_pc[t] = "read_rows"
        /\ c_local[t].ref # 0 /\ c_local[t].ref # c_state
        /\ c_heap[c_local[t].ref].doc_count = 2
        /\ c_heap[c_state].rows # c_heap[c_local[t].ref].rows

\* The corpus of the sources that can be read: the unreachable ones contribute nothing.
RemainingCorpus(tables, limit, down) ==
    LoadCorpus([s \in Sources |-> IF s \in down THEN <<>> ELSE tables[s]], limit)

\* C18: when the query of one source of _load_corpus fails, the call does not raise and
\* returns the entries of the remaining sources.
C18_FailedSourceSkipped ==
    (lpc = "done" /\ Cardinality(lc_down) = 1) =>
        /\ lc_out.kind = "items"
        /\ lc_out.items = RemainingCorpus(lc_db, lc_limit, lc_down)

\* C19: on every path through _generate_query_expansions (no key, provider exception,
\* malformed output, valid output) the list returned is not empty and its first element
\* is the original query.
C19_QueryComesFirst ==
    xpc = "done" => ex_out # <<>> /\ ex_out[1] = ex_q

\* The provider gave an array from which alternatives were kept behind the query, up
\* to the cap.
C19_Witness ==
    /\ xpc = "done"
    /\ ex_world.kind = "json" /\ ex_world.value.t = "list"
    /\ Len(ex_out) = 1 + EXPANSION_CAP
    /\ ex_out[1] = ex_q /\ ex_out[2] # ex_q

\* A JSON array whose elements are all strings, or an object one of whose values is one.
ArrayOfStrings(v) == v.t = "list" /\ \A i \in DOMAIN v.items : v.items[i].t = "str"
HoldsArrayOfStrings(v) ==
    ArrayOfStrings(v) \/ (v.t = "obj" /\ \E i \in DOMAIN v.vals : ArrayOfStrings(v.vals[i]))

\* A JSON array of any elements, or an object one of whose values is one.
HoldsArray(v) == v.t = "list" \/ (v.t = "obj" /\ \E i \in DOMAIN v.vals : v.vals[i].t = "list")

C21_ExpansionsDistinctAndCapped ==
    xpc = "done" =>
        /\ \A i, j \in DOMAIN ex_out : ex_out[i] = ex_out[j] => i = j
        /\ Len(ex_out) <= 1 + ex_max

\* The keys of a fused list in order, each with its rrf value.
KeysAndRrf(f) == [i \in DOMAIN f |-> <<CandKey(f[i]), f[i].rrf>>]

\* C22: multiplying every raw score of one input list by a positive constant changes
\* neither the order of the keys nor the rrf values of the fused list, for _rrf_fuse
\* alone and when the dense lists are first sorted by score and cut.
C22_RescalingInvariant ==
    scpc = "done" => KeysAndRrf(sc_scaled) = KeysAndRrf(sc_plain)

\* A dense list of two candidates was reordered by the sort and cut to one before it
\* was fused with another list, and the rescaled run carries other raw scores.
C22_Witness ==
    /\ scpc = "done"
    /\ sc_which \in sc_dense /\ sc_kfuse = 1
    /\ Len(sc_lists[sc_which]) = 2
    /\ sc_lists[sc_which][1].score < sc_lists[sc_which][2].score
    /\ Len(sc_plain) = 2
    /\ \E i \in DOMAIN sc_plain : sc_scaled[i].score # sc_plain[i].score

\* Every retrieval path of the call has returned, and none returned a candidate.
AllPathsEmpty ==
    /\ ppc \in {"fuse", "rerank", "select", "done"}
    /\ raised_in \notin {"corpus", "dense", "lexical", "split", "keyword", "boost"}
    /\ Flatten(dense_lists) = <<>> /\ Flatten(lex_lists) = <<>>
    /\ Flatten(kw_lists) = <<>> /\ boost = <<>>

\* C23: when the dense, lexical, keyword and brand paths all return no candidate,
\* _rrf_fuse, _rerank_llm and _mmr_select each return an empty list and hybrid_search
\* returns an empty context list without raising.
C23_EmptyResultIsValid ==
    (entry = "hybrid_search" /\ AllPathsEmpty) =>
        /\ RrfFuse(FuseArgument, RRF_K) = <<>>
        /\ \A resp \in RerankResponses(0) :
              RerankLlm(<<>>, RERANK_MIN_TOP, api_key, resp) = <<>>
        /\ MmrSelect(<<>>, top_k, MMR_LAMBDA) = <<>>
        /\ p_fused = <<>> /\ p_reranked = <<>> /\ ctx_rows = <<>>
        /\ outcome # "raised"
        /\ ppc = "done" => outcome = "returned"

\* hybrid_search ran a lexical search for a non-empty query, every path came back
\* empty, and the call returned.
C23_Witness ==
    /\ entry = "hybrid_search" /\ AllPathsEmpty
    /\ qry # <<>> /\ lex_lists # <<>> /\ p_db.gasable_index # <<>>
    /\ ppc = "done" /\ outcome = "returned" /\ ctx_rows = <<>>

\* The largest Jaccard similarity of candidate c to the candidates in prev, 0 for none.
MaxSimTo(c, prev) ==
    LET sims == {JaccardSim(candidates[c].tokens, candidates[s].tokens) : s \in prev}
    IN IF prev = {} THEN Rat(0, 1)
       ELSE CHOOSE m \in sims : \A x \in sims : ~RatGt(x, m)

\* lambda * rrf - (1 - lambda) * (largest similarity to prev), times 10 * RrfDen.
Objective(c, prev) ==
    LET m == MaxSimTo(c, prev)
    IN Rat(lambda_weight * candidates[c].rrf * m.d - (10 - lambda_weight) * m.n * RrfDen, m.d)

\* The pick just made is, among the candidates that were remaining, the earliest of
\* those with the largest objective.
LastPickIsBest ==
    LET n == Len(selected)
        pick == selected[n]
        prev == {selected[i] : i \in 1..(n - 1)}
        pool == Range(remaining) \cup {pick}
    IN \A c \in pool :
          /\ ~RatGt(Objective(c, prev), Objective(pick, prev))
          /\ c < pick => RatGt(Objective(pick, prev), Objective(c, prev))

\* C24 as stated: every pick of _mmr_select maximizes lambda * rrf - (1 - lambda) *
\* (largest Jaccard similarity to the selected items) over the remaining candidates,
\* the earliest winning ties, and the first pick is a candidate with the highest rrf.
C24_MmrPickMaximizes ==
    (mpc \in {"loop", "done"} /\ selected # <<>>) =>
        /\ LastPickIsBest
        /\ \A c \in DOMAIN candidates : candidates[c].rrf <= candidates[selected[1]].rrf

\* C24 amended: every pick maximizes the objective, the earliest winning ties; the first
\* pick is the earliest candidate with the highest rrf when lambda_weight is positive,
\* and the first candidate of the list when lambda_weight is 0.
C24_MmrPickMaximizesForLambda ==
    (mpc \in {"loop", "done"} /\ selected # <<>>) =>
        /\ LastPickIsBest
        /\ lambda_weight > 0 =>
              \A c \in DOMAIN candidates :
                 /\ candidates[c].rrf <= candidates[selected[1]].rrf
                 /\ c < selected[1] => candidates[c].rrf < candidates[selected[1]].rrf
        /\ lambda_weight = 0 => selected[1] = 1

\* The second pick went to a candidate of lower rrf than one left behind, because the
\* one left behind resembles the first pick.
C24_Witness ==
    /\ mpc = "loop" /\ Len(selected) = 2 /\ lambda_weight = 7
    /\ \E c \in Range(remaining) :
          /\ candidates[c].rrf > candidates[selected[2]].rrf
          /\ MaxSimTo(c, {selected[1]}).n > 0

\* The query has at least one token after normalization.
QueryHasTokens == SplitWords(NormalizeText(bs_query), 1) # <<>>

\* Row i comes before row j in the ranking: higher score, or equal score and earlier
\* in the corpus.
RanksBefore(i, j) ==
    \/ bs_scores[i] > bs_scores[j]
    \/ bs_scores[i] = bs_scores[j] /\ i < j

\* C25: _bm25_search with a query that has tokens over a non-empty index returns the
\* min(k, doc_count) highest-scoring indexed documents in non-increasing score order,
\* documents of equal score in corpus order.
C25_TopKStable ==
    (spc = "done" /\ QueryHasTokens /\ bs_state.doc_count > 0) =>
        /\ Len(bs_out) = Min(bs_k, bs_state.doc_count)
        /\ \E pos \in [DOMAIN bs_out -> DOMAIN bs_state.rows] :
              /\ \A i \in DOMAIN bs_out :
                    /\ bs_out[i].doc_id = bs_state.rows[pos[i]].doc_id
                    /\ bs_out[i].text = bs_state.rows[pos[i]].text
                    /\ bs_out[i].score = bs_scores[pos[i]]
              /\ \A i, j \in DOMAIN bs_out : i < j => RanksBefore(pos[i], pos[j])
              /\ \A r \in DOMAIN bs_state.rows :
                    (\A i \in DOMAIN bs_out : pos[i] # r) =>
                        \A i \in DOMAIN bs_out : RanksBefore(pos[i], r)

\* Two of four documents were returned, the second document of the corpus first, and
\* a document tying with the last one returned was left out.
C25_Witness ==
    /\ spc = "done" /\ QueryHasTokens
    /\ bs_state.doc_count > 2 /\ Len(bs_out) = 2
    /\ bs_out[1].doc_id = bs_state.rows[2].doc_id
    /\ bs_out[1].score > bs_out[2].score
    /\ Cardinality({r \in DOMAIN bs_state.rows : bs_scores[r] = bs_out[2].score}) > 1

\* C26: _bm25_search returns an empty list when the query has no token after
\* normalization and when the index holds no document, and the index holds no document
\* without tokens: rows, tokens and doc_count have the same length.
C26_EmptyQueryOrIndex ==
    /\ spc \in {"call", "done"} =>
          /\ Len(bs_state.rows) = bs_state.doc_count
          /\ Len(bs_state.tokens) = bs_state.doc_count
          /\ \A i \in DOMAIN bs_state.tokens : bs_state.tokens[i] # <<>>
          /\ bs_state.has_bm25 = (bs_state.doc_count > 0)
    /\ (spc = "done" /\ (~QueryHasTokens \/ bs_state.doc_count = 0)) => bs_out = <<>>

\* A whitespace-only query on an index of two documents gave the empty list.
C26_Witness ==
    /\ spc = "done"
    /\ bs_query = QBlank /\ bs_state.doc_count = 2
    /\ \E i \in DOMAIN bs_scores : bs_scores[i] > 0
    /\ bs_out = <<>>

\* The place of an event in the order of the stages; both dense events share a place.
StageOf(e) ==
    IF e.event = "final" THEN 10
    ELSE CASE e.step = "received_query" -> 1
           [] e.step = "expansions" -> 2
           [] e.step \in {"dense_retrieval", "dense_error"} -> 3
           [] e.step = "lex_retrieval" -> 4
           [] e.step = "keyword_prefilter" -> 5
           [] e.step = "brand_boost" -> 6
           [] e.step = "fusion" -> 7
           [] e.step = "rerank" -> 8
           [] e.step = "selection" -> 9
           [] OTHER -> 0

\* C27: in api_query_stream the events appear in the order received_query, expansions,
\* (dense_retrieval or dense_error), lex_retrieval, (keyword_prefilter), (brand_boost),
\* fusion, rerank, selection, final, each at most once; a finished stream ends with its
\* only final event, which carries the answer's context ids or an error; and no step
\* event carries context ids.
C27_StreamEventOrder ==
    entry = "api_query_stream" =>
        /\ \A i \in DOMAIN events : StageOf(events[i]) > 0
        /\ \A i, j \in DOMAIN events : i < j => StageOf(events[i]) < StageOf(events[j])
        /\ \A i \in DOMAIN events : events[i].event = "step" => events[i].context_ids = <<>>
        /\ ppc = "done" =>
              /\ events # <<>>
              /\ events[Len(events)].event = "final"
              /\ Cardinality({i \in DOMAIN events : events[i].event = "final"}) = 1
              /\ ~events[Len(events)].error =>
                    /\ {1, 2, 4, 7, 8, 9} \subseteq {StageOf(events[i]) : i \in DOMAIN events}
                    /\ events[Len(events)].context_ids
                          = [i \in DOMAIN ctx_rows |-> ctx_rows[i].id]
        /\ ppc # "done" => \A i \in DOMAIN events : events[i].event = "step"

\* A stream with every optional event: ten events, the last one final with context ids.
C27_Witness ==
    /\ entry = "api_query_stream" /\ ppc = "done"
    /\ Len(events) = 10
    /\ events[3].step = "dense_retrieval"
    /\ events[10].event = "final" /\ events[10].context_ids # <<>>

\* C28: when the corpus load fails during a rebuild, BM25_STATE (built_at included) is
\* left as it was, None or the previous index, the call raises, and the next call of
\* _get_bm25_state attempts the rebuild again.
C28_FailedRebuildKeepsIndex ==
    /\ [](bm_last = "raised" => NeedsRebuild(BM25_STATE, clock, bm_ttl))
    /\ [][/\ bm_last' = "raised" /\ bm_calls' # bm_calls => BM25_STATE' = BM25_STATE
          /\ bm_last = "raised" /\ bm_calls' # bm_calls =>
                bm_loads' = bm_loads + 1 /\ bm_last' \in {"built", "raised"}]_vars

\* A rebuild failed after the ttl of an index of two documents ran out, and that index
\* is still the cached one.
C28_Witness ==
    /\ bm_last = "raised"
    /\ BM25_STATE # <<>> /\ BM25_STATE[1].doc_count = 2
    /\ bm_builds = 1 /\ bm_loads >= 2

\* The version of the tables a corpus was loaded from: 1 for the tables as they are
\* after ingestion changed them, 0 for the tables before.
CorpusVersion(corpus) == IF corpus = LoadCorpus(TablesB, CorpusLimit) THEN 1 ELSE 0

\* C29: when calls of _get_bm25_state overlap, an index that replaces another in
\* BM25_STATE is never built from an older corpus snapshot than the one it replaces,
\* and its built_at is not earlier.
C29_IndexNeverMovesBackwards ==
    [][(c_state # 0 /\ c_state' # c_state) =>
          /\ CorpusVersion(c_from'[c_state']) >= CorpusVersion(c_from[c_state])
          /\ c_heap'[c_state'].built_at >= c_heap[c_state].built_at]_vars

\* The endpoint that answers the same query the other way.
OtherEndpoint == IF entry = "api_query_stream" THEN "api_query" ELSE "api_query_stream"

\* C30: api_query_stream and api_query (through hybrid_search) hand the same sequence
\* of ranked lists to _rrf_fuse, the brand-boost list as many times in the one as in
\* the other, and so fuse to the same list: from the lists one of them retrieved, the
\* argument and the fused list are those the other builds from the same lists.
C30_StreamingEquivalent ==
    (entry \in {"api_query", "api_query_stream"} /\ ppc \in {"rerank", "select", "answer"}) =>
        /\ fuse_in = FuseArgumentOf(OtherEndpoint)
        /\ KeysAndRrf(p_fused) = KeysAndRrf(RrfFuse(FuseArgumentOf(OtherEndpoint), RRF_K))

====
